---- MODULE Spec2Model ----
(***************************************************************************)
(* Verification model of skills/duncandobbins/med-info/scripts/med_info.py *)
(*                                                                         *)
(* Strings are sequences of one-character strings.  The character classes  *)
(* that the code's regular expressions and str methods tell apart are kept *)
(* apart: ASCII digits, the hyphen, a non-ASCII decimal digit ("u", e.g.   *)
(* U+0663, which Python's \d and str.isdigit accept and [0-9] does not),   *)
(* whitespace ("w") and any other character ("x").                         *)
(***************************************************************************)
EXTENDS Integers, Sequences, FiniteSets, TLC

VARIABLES
    \* ---- NDC normalizer (pure functions applied to one input) ----
    ndcIn,      \* the raw input string
    ndcOp,      \* which function has been applied: "none" before
    normOut,    \* result of ndc_normalize_input
    hyphOut,    \* result of ndc_normalize_hyphenated_to_11
    candOut,    \* result of ndc11_candidates_from_10digits
    againOut,   \* result of ndc_normalize_input on the ndc11 of normOut
    \* ---- download_to on one cache entry, step by step ----
    dir,        \* directory: path -> inode number, 0 when there is no such file
    content,    \* inode -> the chunks the file holds
    intended,   \* inode -> the body its last creator or truncator set out to write
    pc,         \* process -> where it is in download_to
    data,       \* process -> the body it received (resp.read())
    fd,         \* process -> the inode its open file refers to, 0 when none
    off,        \* process -> the write offset of that open file
    calls,      \* process -> how many times it has called download_to
    observed,   \* what the last reader of dest observed
    \* ---- purplebook_download_latest, one process ----
    exportMonth,\* the one month (counted back from now) the server has an export for
    pbFile,     \* month -> the cached CSV of that month, NoFile when there is none
    pbPc,       \* where the process is in purplebook_download_latest
    pbBack,     \* the loop variable back
    pbResult,   \* the month whose path was returned, -1 when none
    pbNow,      \* time.localtime() of the call: tm_year and tm_mon
    pbExamined, \* the calendar months of the call so far, as <<yy, mm>>, in order
    pbRequests, \* how many times the call has asked download_to for a file
    pbLoaded,   \* TRUE from a return of a path until the cache has aged
    \* ---- purplebook_download_latest, several processes on one month ----
    rcFile,     \* the cached CSV of the month
    rcPc,       \* process -> where it is in the turn of the loop for that month
    \* ---- main: resolution of one query ----
    args,       \* the command line: kind of query, --pick, --candidates, blocks asked for
    mpc,        \* the statement of main that runs next
    rxcui,      \* TRUE when rxcui is set
    rx_name,    \* TRUE when rx_name is set
    ndc_set_id, \* TRUE when ndc_set_id is set
    label_candidates, \* len(label_candidates)
    label,      \* TRUE when label is set
    setid,      \* TRUE when the label carries a spl_set_id
    outKeys,    \* the keys of the record out that are filled
    notes,      \* out["notes"]
    lookups,    \* the label lookups performed, in order
    attempted,  \* the enrichment blocks whose collaborator was called
    failed,     \* the collaborator calls that raised
    \* ---- the loaders of the bulk datasets ----
    pdftotext,  \* TRUE when the pdftotext program is installed
    obZip,      \* orangebook.zip in the cache
    obProducts, \* products.txt in the cache
    obPc,       \* where orangebook_load is
    obResult,   \* how orangebook_load ended
    niJson,     \* 2025-103.parsed.json in the cache
    niPdf,      \* 2025-103.pdf in the cache
    niTxt,      \* 2025-103.txt in the cache
    niPc,       \* where niosh_hazardous_load is
    niResult,   \* how niosh_hazardous_load ended
    plResult,   \* how purplebook_load ended
    \* ---- one call of a pure function ----
    fnName,     \* the function that was called, "none" before the call
    fnArgs,     \* its arguments
    fnResult    \* what it returned

ndcVars == <<ndcIn, ndcOp, normOut, hyphOut, candOut, againOut>>
dlVars == <<dir, content, intended, pc, data, fd, off, calls, observed>>
pbVars == <<exportMonth, pbFile, pbPc, pbBack, pbResult, pbNow, pbExamined, pbRequests, pbLoaded>>
mainVars == <<args, mpc, rxcui, rx_name, ndc_set_id, label_candidates, label, setid,
              outKeys, notes, lookups, attempted, failed>>
obVars == <<obZip, obProducts, obPc, obResult>>
niVars == <<niJson, niPdf, niTxt, niPc, niResult>>
loadVars == <<pdftotext, obVars, niVars, plResult>>
fnVars == <<fnName, fnArgs, fnResult>>
rcVars == <<rcFile, rcPc>>
vars == <<ndcVars, dlVars, pbVars, rcVars, mainVars, loadVars, fnVars>>
\* what each part leaves alone
notNdc == <<dlVars, pbVars, rcVars, mainVars, loadVars, fnVars>>
notDl == <<ndcVars, pbVars, rcVars, mainVars, loadVars, fnVars>>
notPb == <<ndcVars, dlVars, rcVars, mainVars, loadVars, fnVars>>
notRc == <<ndcVars, dlVars, pbVars, mainVars, loadVars, fnVars>>
notMain == <<ndcVars, dlVars, pbVars, rcVars, loadVars, fnVars>>
notLoad == <<ndcVars, dlVars, pbVars, rcVars, mainVars, fnVars>>
notFn == <<ndcVars, dlVars, pbVars, rcVars, mainVars, loadVars>>
notOb == <<notLoad, pdftotext, niVars, plResult>>
notNi == <<notLoad, pdftotext, obVars, plResult>>

(***************************************************************************)
(* Bounds                                                                  *)
(***************************************************************************)
\* longest bare (hyphen-free) digit string drawn as input
MaxBare == 11
\* longest hyphen-separated group drawn as input
MaxSegLen == 5
\* number of chunks of a downloaded body (a write can stop after any chunk)
MaxBodyLen == 2
\* number of processes that share the cache directory
NProcs == 2
\* number of calls of download_to a process makes
MaxCalls == 2
\* number of enrichment blocks asked for in one run
MaxRequested == 3
\* number of label candidates the upstream returns
MaxCands == 2
\* number of labels in the upstream result set that is scored
MaxLabels == 2
\* number of lines of the pdftotext output that is parsed
MaxLines == 6
\* number of characters of a text field that is searched
MaxText == 2
\* largest max_total that find_hits is called with
MaxTotal == 3
\* number of characters of a value that is quoted for openFDA
MaxValue == 4
\* number of lines of a text that is parsed one loop iteration at a time
MaxStepLines == 5

(***************************************************************************)
(* Program constants                                                       *)
(***************************************************************************)
\* for back in range(0, 18)
WalkBack == 18
\* characters of context on each side of a hit
SnippetContext == 60

(***************************************************************************)
(* Characters and string helpers                                           *)
(***************************************************************************)
AsciiDigits == {"0", "1", "2", "3", "4", "5", "6", "7", "8", "9"}
UniDigits == {"u"}
Whitespace == {"w"}

\* Python's None, kept apart from every string (strings hold one-character
\* elements only)
None == <<"None">>

\* re.sub(r"[^0-9-]", "", s)
KeepDigitsHyphen(s) == SelectSeq(s, LAMBDA c : c \in AsciiDigits \cup {"-"})

\* re.sub(r"\D", "", s): \d of a str pattern is Unicode-aware
KeepDigits(s) == SelectSeq(s, LAMBDA c : c \in AsciiDigits \cup UniDigits)

\* str.isdigit()
IsDigitStr(s) == Len(s) > 0 /\ \A i \in 1..Len(s) : s[i] \in AsciiDigits \cup UniDigits

\* re.fullmatch(r"\d{n}", s)
FullMatchDigits(s, n) == Len(s) = n /\ \A i \in 1..Len(s) : s[i] \in AsciiDigits \cup UniDigits

RECURSIVE LStrip(_)
LStrip(s) ==
    IF s # <<>> /\ Head(s) \in Whitespace THEN LStrip(Tail(s)) ELSE s

RECURSIVE RStrip(_)
RStrip(s) ==
    IF s # <<>> /\ s[Len(s)] \in Whitespace THEN RStrip(SubSeq(s, 1, Len(s) - 1)) ELSE s

\* str.strip()
Strip(s) == RStrip(LStrip(s))

\* s.split("-"): the pieces between hyphens, empty pieces included
RECURSIVE SplitHyphen(_, _)
SplitHyphen(s, cur) ==
    IF s = <<>> THEN <<cur>>
    ELSE IF Head(s) = "-" THEN <<cur>> \o SplitHyphen(Tail(s), <<>>)
    ELSE SplitHyphen(Tail(s), Append(cur, Head(s)))

\* [p for p in s.split("-") if p]
HyphenParts(s) == SelectSeq(SplitHyphen(s, <<>>), LAMBDA p : p # <<>>)

\* Python slice s[a:b] with 0 <= a <= b (0-based, end exclusive, clipped)
Slice(s, a, b) == SubSeq(s, a + 1, IF b > Len(s) THEN Len(s) ELSE b)

(***************************************************************************)
(* The parts of the state, at rest.  Each specification below moves one    *)
(* part and leaves the others at rest.                                     *)
(***************************************************************************)
NoNorm == [input |-> <<>>, digits |-> <<>>, ndc11 |-> None, ndc11_candidates |-> <<>>]

NdcIdle ==
    /\ ndcIn = <<>>
    /\ ndcOp = "none"
    /\ normOut = NoNorm
    /\ hyphOut = None
    /\ candOut = <<>>
    /\ againOut = NoNorm

Procs == 1..NProcs
Inodes == 1..(NProcs + 2)

NoData == <<>>

\* the observation "no file at this path"
Absent == [exists |-> FALSE, bytes |-> <<>>, whole |-> TRUE]

DlIdle ==
    /\ dir = [x \in {"dest", "tmp"} |-> 0]
    /\ content = [i \in Inodes |-> <<>>]
    /\ intended = [i \in Inodes |-> <<>>]
    /\ pc = [p \in Procs |-> "idle"]
    /\ data = [p \in Procs |-> NoData]
    /\ fd = [p \in Procs |-> 0]
    /\ off = [p \in Procs |-> 0]
    /\ calls = [p \in Procs |-> 0]
    /\ observed = Absent

Months == 0..(WalkBack - 1)

NoFile == [bytes |-> <<"NoFile">>, fresh |-> FALSE]

RcIdle ==
    /\ rcFile = NoFile
    /\ rcPc = [p \in Procs |-> "idle"]

PbAloneIdle ==
    /\ exportMonth = 0
    /\ pbFile = [mo \in Months |-> NoFile]
    /\ pbPc = "idle"
    /\ pbBack = 0
    /\ pbResult = -1
    /\ pbNow = [tm_year |-> 1970, tm_mon |-> 1]
    /\ pbExamined = <<>>
    /\ pbRequests = 0
    /\ pbLoaded = FALSE

PbIdle == PbAloneIdle /\ RcIdle

Blocks == {"recalls", "shortages", "faers", "rxclass", "interactions",
           "chem", "dailymed", "orangebook", "purplebook"}

NoArgs == [kind |-> "name", pick |-> 0, candidates |-> FALSE, blocks |-> {}]

MainIdle ==
    /\ args = NoArgs
    /\ mpc = "done"
    /\ rxcui = FALSE
    /\ rx_name = FALSE
    /\ ndc_set_id = FALSE
    /\ label_candidates = 0
    /\ label = FALSE
    /\ setid = FALSE
    /\ outKeys = {}
    /\ notes = <<>>
    /\ lookups = <<>>
    /\ attempted = {}
    /\ failed = {}

\* a file of the cache: what it holds and whether cache_is_fresh says yes
NoCached == [holds |-> "none", fresh |-> FALSE]

NoResult == [kind |-> "none", reason |-> "none"]

LoadIdle ==
    /\ pdftotext = FALSE
    /\ obZip = "none"
    /\ obProducts = NoCached
    /\ obPc = "idle"
    /\ obResult = NoResult
    /\ niJson = NoCached
    /\ niPdf = NoCached
    /\ niTxt = "none"
    /\ niPc = "idle"
    /\ niResult = NoResult
    /\ plResult = NoResult

NoCall == <<>>

FnIdle ==
    /\ fnName = "none"
    /\ fnArgs = NoCall
    /\ fnResult = NoCall

(***************************************************************************)
(* NDC normalizer                                                          *)
(***************************************************************************)
ndc_normalize_hyphenated_to_11_pad_product_last(ndc) ==
    LET s == KeepDigitsHyphen(Strip(ndc))
        parts == HyphenParts(s)
    IN  IF Len(parts) # 3 THEN None
        ELSE LET a == parts[1]
                 b == parts[2]
                 c == parts[3]
                 tri == <<Len(a), Len(b), Len(c)>>
             IN  IF ~(IsDigitStr(a) /\ IsDigitStr(b) /\ IsDigitStr(c)) THEN None
                 ELSE IF tri = <<4, 4, 2>> THEN <<"0">> \o a \o b \o c
                 ELSE IF tri = <<5, 3, 2>> THEN a \o b \o <<"0">> \o c
                 ELSE IF tri = <<5, 4, 1>> THEN a \o b \o <<"0">> \o c
                 ELSE IF tri = <<5, 4, 2>> THEN a \o b \o c
                 ELSE None

ndc_normalize_hyphenated_to_11(ndc) ==
    LET s == KeepDigitsHyphen(Strip(ndc))
        parts == HyphenParts(s)
    IN  IF Len(parts) # 3 THEN None
        ELSE LET a == parts[1]
                 b == parts[2]
                 c == parts[3]
                 tri == <<Len(a), Len(b), Len(c)>>
             IN  IF ~(IsDigitStr(a) /\ IsDigitStr(b) /\ IsDigitStr(c)) THEN None
                 ELSE IF tri = <<4, 4, 2>> THEN <<"0">> \o a \o b \o c
                 ELSE IF tri = <<5, 3, 2>> THEN a \o <<"0">> \o b \o c
                 ELSE IF tri = <<5, 4, 1>> THEN a \o b \o <<"0">> \o c
                 ELSE IF tri = <<5, 4, 2>> THEN a \o b \o c
                 ELSE None

\* the variant that keeps the last entry of each ndc11 value
RECURSIVE DedupByNdc11_keeps_last(_, _)
DedupByNdc11_keeps_last(out, seen) ==
    IF out = <<>> THEN <<>>
    ELSE IF \E i \in 2..Len(out) : out[i].ndc11 = Head(out).ndc11
         THEN DedupByNdc11_keeps_last(Tail(out), seen)
         ELSE <<Head(out)>> \o DedupByNdc11_keeps_last(Tail(out), seen)

\* the loop of lines 184-190: keep the first entry of each ndc11 value
RECURSIVE DedupByNdc11(_, _)
DedupByNdc11(out, seen) ==
    IF out = <<>> THEN <<>>
    ELSE IF Head(out).ndc11 \in seen THEN DedupByNdc11(Tail(out), seen)
    ELSE <<Head(out)>> \o DedupByNdc11(Tail(out), seen \cup {Head(out).ndc11})

ndc11_candidates_from_10digits_no_dedup(ndc10) ==
    LET d == KeepDigits(Strip(ndc10))
    IN  IF Len(d) # 10 THEN <<>>
        ELSE <<[ndc11 |-> <<"0">> \o d, schema |-> "4-4-2"],
               [ndc11 |-> Slice(d, 0, 5) \o <<"0">> \o Slice(d, 5, 10), schema |-> "5-3-2"],
               [ndc11 |-> Slice(d, 0, 9) \o <<"0">> \o Slice(d, 9, 10), schema |-> "5-4-1"]>>

ndc11_candidates_from_10digits(ndc10) ==
    LET d == KeepDigits(Strip(ndc10))
    IN  IF Len(d) # 10 THEN <<>>
        ELSE LET a == <<"0">> \o d
                 b == Slice(d, 0, 5) \o <<"0">> \o Slice(d, 5, 10)
                 c == Slice(d, 0, 9) \o <<"0">> \o Slice(d, 9, 10)
                 out == <<[ndc11 |-> a, schema |-> "4-4-2"],
                          [ndc11 |-> b, schema |-> "5-3-2"],
                          [ndc11 |-> c, schema |-> "5-4-1"]>>
             IN  DedupByNdc11(out, {})

ndc_normalize_input_hyphenated_only(ndc) ==
    LET s == Strip(ndc)
        digits == KeepDigits(s)
        norm == [input |-> s, digits |-> digits, ndc11 |-> None, ndc11_candidates |-> <<>>]
        hyph == ndc_normalize_hyphenated_to_11(s)
    IN  IF (\E i \in 1..Len(s) : s[i] = "-") /\ hyph # None /\ hyph # <<>>
                /\ FullMatchDigits(hyph, 11)
             THEN [norm EXCEPT !.ndc11 = hyph]
        ELSE IF FullMatchDigits(digits, 10)
             THEN [norm EXCEPT !.ndc11_candidates = ndc11_candidates_from_10digits(digits)]
        ELSE norm

ndc_normalize_input(ndc) ==
    LET s == Strip(ndc)
        digits == KeepDigits(s)
        norm == [input |-> s, digits |-> digits, ndc11 |-> None, ndc11_candidates |-> <<>>]
        hyph == ndc_normalize_hyphenated_to_11(s)
    IN  IF FullMatchDigits(digits, 11) THEN [norm EXCEPT !.ndc11 = digits]
        ELSE IF (\E i \in 1..Len(s) : s[i] = "-") /\ hyph # None /\ hyph # <<>>
                /\ FullMatchDigits(hyph, 11)
             THEN [norm EXCEPT !.ndc11 = hyph]
        ELSE IF FullMatchDigits(digits, 10)
             THEN [norm EXCEPT !.ndc11_candidates = ndc11_candidates_from_10digits(digits)]
        ELSE norm

(***************************************************************************)
(* Inputs of the NDC functions                                             *)
(***************************************************************************)
BinDigits == {"0", "1"}

\* every hyphen-free string of 0 and 1 up to MaxBare characters
BareInputs == UNION {[1..n -> BinDigits] : n \in 0..MaxBare}

\* the i-th digit of 1234567890123...
CycleDigit(i) == <<"1", "2", "3", "4", "5", "6", "7", "8", "9", "0">>[((i - 1) % 10) + 1]

\* groups of the given lengths cut from the digit source, joined by hyphens
RECURSIVE Hyphenate(_, _, _)
Hyphenate(lens, from, zero) ==
    IF lens = <<>> THEN <<>>
    ELSE LET n == Head(lens)
             grp == [i \in 1..n |-> IF zero THEN "0" ELSE CycleDigit(from + i)]
         IN  grp \o (IF Len(lens) > 1 THEN <<"-">> ELSE <<>>)
                 \o Hyphenate(Tail(lens), from + n, zero)

GroupShapes == UNION {[1..k -> 0..MaxSegLen] : k \in 2..4}

GroupedInputs == {Hyphenate(sh, 0, z) : sh \in GroupShapes, z \in BOOLEAN}

\* the examples of the documentation
ExampleInputs ==
    {<<"0", "0", "0", "9", "3", "-", "1", "0", "4", "5", "-", "5", "6">>,
     <<"0", "0", "4", "7", "-", "0", "4", "0", "2", "-", "0", "1">>}

CleanInputs == BareInputs \cup GroupedInputs \cup ExampleInputs

\* one stray character in front of or behind a clean input
JunkChars == {"x", "u", "w"}

NdcInputs ==
    CleanInputs
        \cup {<<j>> \o s : j \in JunkChars, s \in CleanInputs}
        \cup {s \o <<j>> : j \in JunkChars, s \in CleanInputs}

InitNdc ==
    /\ DlIdle
    /\ PbIdle
    /\ MainIdle
    /\ LoadIdle
    /\ FnIdle
    /\ ndcIn \in NdcInputs
    /\ ndcOp = "none"
    /\ normOut = NoNorm
    /\ hyphOut = None
    /\ candOut = <<>>
    /\ againOut = NoNorm

NormalizeInput ==
    /\ ndcOp = "none"
    /\ ndcOp' = "normalize_input"
    /\ normOut' = ndc_normalize_input(ndcIn)
    /\ UNCHANGED <<ndcIn, hyphOut, candOut, againOut>>
    /\ UNCHANGED notNdc

NormalizeHyphenated ==
    /\ ndcOp = "none"
    /\ ndcOp' = "hyphenated"
    /\ hyphOut' = ndc_normalize_hyphenated_to_11(ndcIn)
    /\ UNCHANGED <<ndcIn, normOut, candOut, againOut>>
    /\ UNCHANGED notNdc

CandidatesFrom10 ==
    /\ ndcOp = "none"
    /\ ndcOp' = "candidates"
    /\ candOut' = ndc11_candidates_from_10digits(ndcIn)
    /\ UNCHANGED <<ndcIn, normOut, hyphOut, againOut>>
    /\ UNCHANGED notNdc

\* the ndc11 that ndc_normalize_input gave is normalized again
NormalizeAgain ==
    /\ ndcOp = "normalize_input"
    /\ normOut.ndc11 # None
    /\ ndcOp' = "normalize_again"
    /\ againOut' = ndc_normalize_input(normOut.ndc11)
    /\ UNCHANGED <<ndcIn, normOut, hyphOut, candOut>>
    /\ UNCHANGED notNdc

NextNdc ==
    \/ NormalizeInput
    \/ NormalizeHyphenated
    \/ CandidatesFrom10
    \/ NormalizeAgain

SpecNdc == InitNdc /\ [][NextNdc]_vars

(***************************************************************************)
(* Claims about the NDC normalizer                                         *)
(***************************************************************************)
Populated(norm) == norm.ndc11 # None
HasCandidates(norm) == norm.ndc11_candidates # <<>>

\* C8: after ndc_normalize_input, an input with 10 or 11 digits (what is left
\* after removing the non-digits) has exactly one of ndc11 and a non-empty
\* ndc11_candidates populated; any other input has neither.
C8_ExactlyOnePopulated ==
    ndcOp = "normalize_input" =>
        IF Len(normOut.digits) \in {10, 11}
        THEN Populated(normOut) # HasCandidates(normOut)
        ELSE ~Populated(normOut) /\ ~HasCandidates(normOut)

\* the digits of a bare 10-digit NDC
IsBare10(s) == Len(s) = 10 /\ \A i \in 1..10 : s[i] \in AsciiDigits

AllZero(s) == \A i \in 1..Len(s) : s[i] = "0"

SchemaOrder == <<"4-4-2", "5-3-2", "5-4-1">>

\* C9 as stated: every bare 10-digit NDC gives exactly 3 candidates, pairwise
\* distinct, each of 11 digits, each with a distinct schema.
C9_ExactlyThreeCandidates ==
    (ndcOp = "candidates" /\ IsBare10(ndcIn)) =>
        /\ Len(candOut) = 3
        /\ \A i, j \in 1..Len(candOut) :
              i # j => /\ candOut[i].ndc11 # candOut[j].ndc11
                       /\ candOut[i].schema # candOut[j].schema
        /\ \A i \in 1..Len(candOut) : FullMatchDigits(candOut[i].ndc11, 11)

\* C9 amended: every bare 10-digit NDC gives 1 to 3 candidates, pairwise
\* distinct in value and in schema, each of 11 digits, in the order 4-4-2,
\* 5-3-2, 5-4-1; the 5-3-2 candidate is missing exactly when the first five
\* digits are all 0, the 5-4-1 candidate exactly when digits 6 to 9 are all 0.
C9_CandidatesDistinctAfterDedup ==
    (ndcOp = "candidates" /\ IsBare10(ndcIn)) =>
        LET tags == {candOut[i].schema : i \in 1..Len(candOut)}
        IN  /\ Len(candOut) \in 1..3
            /\ \A i, j \in 1..Len(candOut) :
                  i # j => /\ candOut[i].ndc11 # candOut[j].ndc11
                           /\ candOut[i].schema # candOut[j].schema
            /\ \A i \in 1..Len(candOut) : FullMatchDigits(candOut[i].ndc11, 11)
            /\ \A i, j \in 1..Len(candOut) :
                  i < j => \E a, b \in 1..3 :
                      /\ a < b
                      /\ SchemaOrder[a] = candOut[i].schema
                      /\ SchemaOrder[b] = candOut[j].schema
            /\ "4-4-2" \in tags
            /\ ("5-3-2" \in tags) <=> ~AllZero(SubSeq(ndcIn, 1, 5))
            /\ ("5-4-1" \in tags) <=> ~AllZero(SubSeq(ndcIn, 6, 9))

\* a 10-digit input whose 4-4-2 and 5-3-2 paddings collide
C9_Witness ==
    /\ ndcOp = "candidates"
    /\ IsBare10(ndcIn)
    /\ Len(candOut) = 2
    /\ candOut[2].schema = "5-4-1"

\* the input is exactly three non-empty groups of ASCII digits joined by
\* single hyphens
IsThreeNumericGroups(s) ==
    LET parts == SplitHyphen(s, <<>>)
    IN  /\ Len(parts) = 3
        /\ \A k \in 1..3 :
              /\ parts[k] # <<>>
              /\ \A i \in 1..Len(parts[k]) : parts[k][i] \in AsciiDigits

\* the group padded on the left with zeros to the given width
RECURSIVE PadLeft(_, _)
PadLeft(g, width) == IF Len(g) >= width THEN g ELSE PadLeft(<<"0">> \o g, width)

RecognizedTriples == {<<4, 4, 2>>, <<5, 3, 2>>, <<5, 4, 1>>, <<5, 4, 2>>}

TripleOf(s) ==
    LET parts == SplitHyphen(s, <<>>)
    IN  <<Len(parts[1]), Len(parts[2]), Len(parts[3])>>

\* C10: for three numeric groups with a recognized length triple the result
\* is the first group padded to 5, the second to 4 and the third to 2 digits
\* with leading zeros, concatenated: 11 digits.
C10_PaddingByTriple ==
    (ndcOp = "hyphenated" /\ IsThreeNumericGroups(ndcIn)
        /\ TripleOf(ndcIn) \in RecognizedTriples) =>
        LET parts == SplitHyphen(ndcIn, <<>>)
        IN  /\ hyphOut = PadLeft(parts[1], 5) \o PadLeft(parts[2], 4) \o PadLeft(parts[3], 2)
            /\ Len(hyphOut) = 11

\* a 5-3-2 input has been normalized
C10_Witness ==
    /\ ndcOp = "hyphenated"
    /\ IsThreeNumericGroups(ndcIn)
    /\ TripleOf(ndcIn) = <<5, 3, 2>>
    /\ hyphOut # None

\* C11: for three numeric groups with a recognized length triple, the ndc11
\* that ndc_normalize_input gives is 11 digits, and normalizing it again gives
\* the same ndc11 and no candidates.
C11_NormalizeIdempotent ==
    (ndcOp = "normalize_again" /\ IsThreeNumericGroups(ndcIn)
        /\ TripleOf(ndcIn) \in RecognizedTriples) =>
        /\ normOut.ndc11 = ndc_normalize_hyphenated_to_11(ndcIn)
        /\ againOut.ndc11 = normOut.ndc11
        /\ againOut.ndc11_candidates = <<>>
        /\ againOut.digits = normOut.ndc11

\* a 4-4-2 input has been normalized twice
C11_Witness ==
    /\ ndcOp = "normalize_again"
    /\ IsThreeNumericGroups(ndcIn)
    /\ TripleOf(ndcIn) = <<4, 4, 2>>
    /\ againOut.ndc11 # None

\* C24: for three numeric groups whose length triple is none of the four
\* recognized ones, ndc_normalize_input gives no ndc11 and no candidates,
\* whatever the number of digits.
C24_UnrecognizedTripleFails ==
    (ndcOp = "normalize_input" /\ IsThreeNumericGroups(ndcIn)
        /\ TripleOf(ndcIn) \notin RecognizedTriples) =>
        /\ ~Populated(normOut)
        /\ ~HasCandidates(normOut)

\* the group lengths of a schema
SchemaLens(schema) ==
    CASE schema = "4-4-2" -> <<4, 4, 2>>
      [] schema = "5-3-2" -> <<5, 3, 2>>
      [] schema = "5-4-1" -> <<5, 4, 1>>

\* the 10 digits d written with the hyphens of the schema
HyphenatedAs(d, schema) ==
    LET l == SchemaLens(schema)
    IN  SubSeq(d, 1, l[1]) \o <<"-">> \o SubSeq(d, l[1] + 1, l[1] + l[2])
            \o <<"-">> \o SubSeq(d, l[1] + l[2] + 1, 10)

\* what the hyphenated normalizer gives for d under the k-th schema
ViaHyphens(d, k) == ndc_normalize_hyphenated_to_11(HyphenatedAs(d, SchemaOrder[k]))

\* C30: for 10 digits d and each schema S of 4-4-2, 5-3-2, 5-4-1, the
\* candidate tagged S is the hyphenated normalizer's result for d hyphenated
\* according to S; a schema whose value an earlier schema gives too has no
\* candidate, so the surviving candidate has the first tag; there is no other
\* candidate.
C30_CandidatesAgreeWithNormalizer ==
    (ndcOp = "candidates" /\ IsBare10(ndcIn)) =>
        /\ \A k \in 1..3 :
              IF \E h \in 1..(k - 1) : ViaHyphens(ndcIn, h) = ViaHyphens(ndcIn, k)
              THEN \A i \in 1..Len(candOut) : candOut[i].schema # SchemaOrder[k]
              ELSE \E i \in 1..Len(candOut) :
                      candOut[i] = [ndc11 |-> ViaHyphens(ndcIn, k), schema |-> SchemaOrder[k]]
        /\ \A i \in 1..Len(candOut) :
              \E k \in 1..3 :
                  candOut[i] = [ndc11 |-> ViaHyphens(ndcIn, k), schema |-> SchemaOrder[k]]
        /\ \A i, j \in 1..Len(candOut) : i # j => candOut[i].schema # candOut[j].schema

\* ten zeros: the three schemas give the same value, one candidate is left
C30_Witness ==
    /\ ndcOp = "candidates"
    /\ IsBare10(ndcIn)
    /\ AllZero(ndcIn)
    /\ candOut = <<[ndc11 |-> ViaHyphens(ndcIn, 1), schema |-> "4-4-2"]>>

(***************************************************************************)
(* download_to, step by step, on the cache entry dest and its temporary    *)
(* sibling.  A file is an inode: a directory entry and an open file may    *)
(* refer to the same one, and rename moves the entry, not the bytes.       *)
(***************************************************************************)
\* the bodies the server may answer with: MaxBodyLen chunks, the first being
\* the CSV header or an HTML tag
DlBodies == {[i \in 1..MaxBodyLen |-> IF i = 1 THEN t ELSE "txt"] : t \in {"hdr", "tag"}}

\* what a read of the path returns, with whether the file holds all of the
\* body its writer set out to write
FileAt(path) ==
    IF dir[path] = 0 THEN Absent
    ELSE [exists |-> TRUE, bytes |-> content[dir[path]],
          whole |-> content[dir[path]] = intended[dir[path]]]

\* dest.with_suffix(dest.suffix + ".tmp") written in place of the sibling
TmpOf_in_place(dest) == dest

\* dest.with_suffix(dest.suffix + ".tmp"): one fixed sibling name per dest
TmpOf(dest) == IF dest = "dest" THEN "tmp" ELSE dest

\* an inode no directory entry and no open file refers to is gone
Referenced(d, f) == {d[x] : x \in DOMAIN d} \cup {f[p] : p \in DOMAIN f}

Collect(d, f, c) == [i \in Inodes |-> IF i \in Referenced(d, f) THEN c[i] ELSE <<>>]

FreeInode(d, f) == CHOOSE i \in Inodes : i \notin Referenced(d, f)
                      /\ \A j \in Inodes : j \notin Referenced(d, f) => i <= j

\* the file after a write of chunk at 0-based offset o
WriteAt(bytes, o, chunk) ==
    [i \in 1..(IF Len(bytes) > o + 1 THEN Len(bytes) ELSE o + 1) |->
        IF i = o + 1 THEN chunk
        ELSE IF i <= Len(bytes) THEN bytes[i]
        ELSE "nul"]

\* the cache directory is empty and no process is inside download_to
InitDl ==
    /\ DlIdle
    /\ NdcIdle
    /\ PbIdle
    /\ MainIdle
    /\ LoadIdle
    /\ FnIdle

\* download_to is called
DlCall(p) ==
    /\ UNCHANGED notDl
    /\ pc[p] = "idle"
    /\ calls[p] < MaxCalls
    /\ pc' = [pc EXCEPT ![p] = "fetch"]
    /\ calls' = [calls EXCEPT ![p] = @ + 1]
    /\ UNCHANGED <<dir, content, intended, data, fd, off, observed>>

\* urlopen(...) and resp.read() return the whole body
DlFetch(p) ==
    /\ UNCHANGED notDl
    /\ pc[p] = "fetch"
    /\ \E b \in DlBodies : data' = [data EXCEPT ![p] = b]
    /\ pc' = [pc EXCEPT ![p] = "open"]
    /\ UNCHANGED <<dir, content, intended, fd, off, calls, observed>>

\* urlopen(...) or resp.read() raises
DlFetchFails(p) ==
    /\ UNCHANGED notDl
    /\ pc[p] = "fetch"
    /\ pc' = [pc EXCEPT ![p] = "raised"]
    /\ UNCHANGED <<dir, content, intended, data, fd, off, calls, observed>>

\* tmp.write_bytes(data) opens tmp for writing: creates it, or truncates the
\* file that is there
DlOpenTmp(p) ==
    /\ UNCHANGED notDl
    /\ pc[p] = "open"
    /\ LET tmp == TmpOf("dest")
           i == IF dir[tmp] = 0 THEN FreeInode(dir, fd) ELSE dir[tmp]
       IN  /\ dir' = [dir EXCEPT ![tmp] = i]
           /\ content' = [content EXCEPT ![i] = <<>>]
           /\ intended' = [intended EXCEPT ![i] = data[p]]
           /\ fd' = [fd EXCEPT ![p] = i]
    /\ off' = [off EXCEPT ![p] = 0]
    /\ pc' = [pc EXCEPT ![p] = "write"]
    /\ UNCHANGED <<data, calls, observed>>

\* one more chunk of the body reaches the open file
DlWriteChunk(p) ==
    /\ UNCHANGED notDl
    /\ pc[p] = "write"
    /\ off[p] < Len(data[p])
    /\ content' = [content EXCEPT ![fd[p]] = WriteAt(@, off[p], data[p][off[p] + 1])]
    /\ off' = [off EXCEPT ![p] = @ + 1]
    /\ UNCHANGED <<dir, intended, pc, data, fd, calls, observed>>

\* write_bytes closes the file once the body is written
DlClose(p) ==
    /\ UNCHANGED notDl
    /\ pc[p] = "write"
    /\ off[p] = Len(data[p])
    /\ LET f == [fd EXCEPT ![p] = 0]
       IN  /\ fd' = f
           /\ content' = Collect(dir, f, content)
           /\ intended' = Collect(dir, f, intended)
    /\ off' = [off EXCEPT ![p] = 0]
    /\ pc' = [pc EXCEPT ![p] = "rename"]
    /\ UNCHANGED <<dir, data, calls, observed>>

\* tmp.replace(dest): the entry of tmp becomes the entry of dest
DlRename(p) ==
    /\ UNCHANGED notDl
    /\ pc[p] = "rename"
    /\ LET tmp == TmpOf("dest")
       IN  IF dir[tmp] = 0
           THEN \* FileNotFoundError
                /\ pc' = [pc EXCEPT ![p] = "raised"]
                /\ UNCHANGED <<dir, content, intended>>
           ELSE LET d == IF tmp = "dest" THEN dir
                         ELSE [dir EXCEPT !["dest"] = dir[tmp], ![tmp] = 0]
                IN  /\ dir' = d
                    /\ content' = Collect(d, fd, content)
                    /\ intended' = Collect(d, fd, intended)
                    /\ pc' = [pc EXCEPT ![p] = "returned"]
    /\ UNCHANGED <<data, fd, off, calls, observed>>

\* the process stops (is killed, loses power) inside download_to
DlCrash(p) ==
    /\ UNCHANGED notDl
    /\ pc[p] \in {"fetch", "open", "write", "rename"}
    /\ LET f == [fd EXCEPT ![p] = 0]
       IN  /\ fd' = f
           /\ content' = Collect(dir, f, content)
           /\ intended' = Collect(dir, f, intended)
    /\ off' = [off EXCEPT ![p] = 0]
    /\ pc' = [pc EXCEPT ![p] = "crashed"]
    /\ UNCHANGED <<dir, data, calls, observed>>

\* the call is over; the process may call again
DlDone(p) ==
    /\ UNCHANGED notDl
    /\ pc[p] \in {"returned", "raised", "crashed"}
    /\ pc' = [pc EXCEPT ![p] = "idle"]
    /\ data' = [data EXCEPT ![p] = NoData]
    /\ UNCHANGED <<dir, content, intended, fd, off, calls, observed>>

\* another process reads the file at the canonical path
ReadDest ==
    /\ UNCHANGED notDl
    /\ observed' = FileAt("dest")
    /\ UNCHANGED <<dir, content, intended, pc, data, fd, off, calls>>

DlStep(p) ==
    \/ DlCall(p)
    \/ DlFetch(p)
    \/ DlFetchFails(p)
    \/ DlOpenTmp(p)
    \/ DlWriteChunk(p)
    \/ DlClose(p)
    \/ DlRename(p)
    \/ DlCrash(p)
    \/ DlDone(p)

\* one downloading process that may stop at any step, and readers
NextCrash ==
    \/ DlStep(1)
    \/ ReadDest

SpecCrash == InitDl /\ [][NextCrash]_vars

\* several downloading processes on the same entry, and readers
NextRace ==
    \/ \E p \in Procs : DlStep(p)
    \/ ReadDest

SpecRace == InitDl /\ [][NextRace]_vars

(***************************************************************************)
(* Claims about download_to                                                *)
(***************************************************************************)
\* C1: wherever a single downloading process stops, the file at dest is
\* never half written: it is absent or whole, and it only ever changes to the
\* whole body the process received, at the rename.
C1_CrashSafe ==
    /\ FileAt("dest").whole
    /\ [][LET new == FileAt("dest")'
          IN  /\ new.whole
              /\ observed'.whole
              /\ new # FileAt("dest") =>
                    /\ pc[1] = "rename"
                    /\ new.exists
                    /\ new.bytes = data[1]]_vars

\* the process stopped while the temporary file was half written, over a
\* dest that held an earlier body
C1_Witness ==
    /\ pc[1] = "crashed"
    /\ FileAt("dest").exists
    /\ FileAt("tmp").exists
    /\ ~FileAt("tmp").whole
    /\ FileAt("tmp").bytes # <<>>

\* C2: with several processes refreshing the entry, no reader observes a
\* partially written (truncated or empty) file at dest.
C2_ReadersSeeWholeFiles == observed.whole

(***************************************************************************)
(* purplebook_download_latest, one process.  download_to is one step here: *)
(* with one process it either raises and leaves dest as it was, or puts    *)
(* the whole body at dest (C1).  A file is a sequence of chunks:           *)
(*   "doctype"  the text <!DOCTYPE html>                                   *)
(*   "tag"      text that begins with < and is not that doctype            *)
(*   "hdr"      the header N/R/U,Applicant,BLA Number                      *)
(*   "ws"       whitespace                                                 *)
(*   "txt"      other text, not beginning with <                           *)
(*   "pad"      5000 characters of other text                              *)
(***************************************************************************)
Chunks == {"doctype", "tag", "hdr", "ws", "txt", "pad"}

\* what the server may answer with
Bodies == UNION {[1..n -> Chunks] : n \in 0..MaxBodyLen}

\* text[:5000]: the chunks up to the one that crosses character 5000
RECURSIVE Head5000(_)
Head5000(bytes) ==
    IF bytes = <<>> THEN <<>>
    ELSE IF Head(bytes) = "pad" THEN <<"pad">>
    ELSE <<Head(bytes)>> \o Head5000(Tail(bytes))

RECURSIVE LStripWs(_)
LStripWs(bytes) ==
    IF bytes # <<>> /\ Head(bytes) = "ws" THEN LStripWs(Tail(bytes)) ELSE bytes

Contains(bytes, chunk) == \E i \in 1..Len(bytes) : bytes[i] = chunk

looks_like_csv_header_only(file) ==
    IF file = NoFile THEN FALSE
    ELSE Contains(Head5000(file.bytes), "hdr")

\* looks_like_csv(p); read_text of a missing file raises, which gives False
looks_like_csv(file) ==
    IF file = NoFile THEN FALSE
    ELSE LET head == Head5000(file.bytes)
             stripped == LStripWs(head)
         IN  IF \/ Contains(head, "doctype")
                \/ (stripped # <<>> /\ Head(stripped) \in {"doctype", "tag"})
             THEN FALSE
             ELSE Contains(head, "hdr")

\* cache_is_fresh(p, max_age_days)
cache_is_fresh(file) == file # NoFile /\ file.fresh

\* the years and months of the clock
Years == {2026}
MonthsOfYear == {1, 6, 12}

\* lines 726-730: the year and the zero-based month that lie back months
\* before the zero-based month mm of year yy
RECURSIVE WrapMonth(_, _)
WrapMonth(yy, mm) ==
    IF mm < 0 THEN WrapMonth(yy - 1, mm + 12) ELSE <<yy, mm>>

\* the variant that begins at the month before the current one
CandidateMonth_completed(now, back) == WrapMonth(now.tm_year, (now.tm_mon - 1) - (back + 1))

\* lines 722-730: y = now.tm_year, m = now.tm_mon - 1, mm = m - back
CandidateMonth(now, back) == WrapMonth(now.tm_year, (now.tm_mon - 1) - back)

\* the variant that leaves the file of a failed month where it is
AfterExcept_keeps_file(files, back) == files

\* lines 750-754: dest.unlink(missing_ok=True)
AfterExcept(files, back) == [files EXCEPT ![back] = NoFile]

\* the cache directory is empty; the server has an export for one month
InitPb ==
    /\ exportMonth \in Months
    /\ pbFile = [mo \in Months |-> NoFile]
    /\ pbPc = "idle"
    /\ pbBack = 0
    /\ pbResult = -1
    /\ pbNow \in [tm_year : Years, tm_mon : MonthsOfYear]
    /\ pbExamined = <<>>
    /\ pbRequests = 0
    /\ pbLoaded = FALSE
    /\ RcIdle
    /\ NdcIdle
    /\ DlIdle
    /\ MainIdle
    /\ LoadIdle
    /\ FnIdle

\* purplebook_download_latest is called (lines 721-725)
PbCall ==
    /\ pbPc = "idle"
    /\ pbPc' = "month"
    /\ pbBack' = 0
    /\ pbResult' = -1
    /\ pbExamined' = <<>>
    /\ pbRequests' = 0
    /\ UNCHANGED <<exportMonth, pbFile, pbNow, pbLoaded>>
    /\ UNCHANGED notPb

\* lines 726-733: the month of this turn of the loop, its url and its dest
PbMonth ==
    /\ pbPc = "month"
    /\ pbExamined' = Append(pbExamined, CandidateMonth(pbNow, pbBack))
    /\ pbPc' = "check"
    /\ UNCHANGED <<exportMonth, pbFile, pbBack, pbResult, pbNow, pbRequests, pbLoaded>>
    /\ UNCHANGED notPb

\* lines 734-740: a fresh cached file that validates is returned; a fresh one
\* that does not is unlinked; then, or when not fresh, the download follows
PbCheckCache ==
    /\ pbPc = "check"
    /\ IF cache_is_fresh(pbFile[pbBack])
       THEN IF looks_like_csv(pbFile[pbBack])
            THEN /\ pbPc' = "returned"
                 /\ pbResult' = pbBack
                 /\ pbLoaded' = TRUE
                 /\ UNCHANGED pbFile
            ELSE /\ pbFile' = [pbFile EXCEPT ![pbBack] = NoFile]
                 /\ pbPc' = "download"
                 /\ UNCHANGED <<pbResult, pbLoaded>>
       ELSE /\ pbPc' = "download"
            /\ UNCHANGED <<pbFile, pbResult, pbLoaded>>
    /\ UNCHANGED <<exportMonth, pbBack, pbNow, pbExamined, pbRequests>>
    /\ UNCHANGED notPb

\* line 742, download_to(url, dest) succeeds: dest holds the body, just written
PbDownload ==
    /\ pbPc = "download"
    /\ pbBack = exportMonth
    /\ \E b \in Bodies : pbFile' = [pbFile EXCEPT ![pbBack] = [bytes |-> b, fresh |-> TRUE]]
    /\ pbPc' = "validate"
    /\ pbRequests' = pbRequests + 1
    /\ UNCHANGED <<exportMonth, pbBack, pbResult, pbNow, pbExamined, pbLoaded>>
    /\ UNCHANGED notPb

\* line 742, download_to(url, dest) raises (no export for the month, network)
PbDownloadFails ==
    /\ pbPc = "download"
    /\ pbPc' = "except"
    /\ pbRequests' = pbRequests + 1
    /\ UNCHANGED <<exportMonth, pbFile, pbBack, pbResult, pbNow, pbExamined, pbLoaded>>
    /\ UNCHANGED notPb

\* lines 746-749: the downloaded file is validated and returned, or raises
PbValidate ==
    /\ pbPc = "validate"
    /\ IF looks_like_csv(pbFile[pbBack])
       THEN /\ pbPc' = "returned"
            /\ pbResult' = pbBack
            /\ pbLoaded' = pbFile[pbBack].fresh
       ELSE /\ pbPc' = "except"
            /\ UNCHANGED <<pbResult, pbLoaded>>
    /\ UNCHANGED <<exportMonth, pbFile, pbBack, pbNow, pbExamined, pbRequests>>
    /\ UNCHANGED notPb

\* lines 750-755: dest is unlinked, the loop goes on with the month before;
\* line 757: after 18 months it raises
PbExcept ==
    /\ pbPc = "except"
    /\ pbFile' = AfterExcept(pbFile, pbBack)
    /\ IF pbBack + 1 < WalkBack
       THEN /\ pbBack' = pbBack + 1
            /\ pbPc' = "month"
       ELSE /\ pbPc' = "raised"
            /\ UNCHANGED pbBack
    /\ UNCHANGED <<exportMonth, pbResult, pbNow, pbExamined, pbRequests, pbLoaded>>
    /\ UNCHANGED notPb

\* the process stops inside the function
PbCrash ==
    /\ pbPc \in {"month", "check", "download", "validate", "except"}
    /\ pbPc' = "idle"
    /\ pbBack' = 0
    /\ pbExamined' = <<>>
    /\ pbRequests' = 0
    /\ UNCHANGED <<exportMonth, pbFile, pbResult, pbNow, pbLoaded>>
    /\ UNCHANGED notPb

\* the call is over
PbDone ==
    /\ pbPc \in {"returned", "raised"}
    /\ pbPc' = "idle"
    /\ pbBack' = 0
    /\ pbResult' = -1
    /\ pbExamined' = <<>>
    /\ pbRequests' = 0
    /\ UNCHANGED <<exportMonth, pbFile, pbNow, pbLoaded>>
    /\ UNCHANGED notPb

\* max_age_days go by: every cached file is stale
TimePasses ==
    /\ \E mo \in Months : pbFile[mo] # NoFile /\ pbFile[mo].fresh
    /\ pbFile' = [mo \in Months |->
                     IF pbFile[mo] = NoFile THEN NoFile
                     ELSE [pbFile[mo] EXCEPT !.fresh = FALSE]]
    /\ pbLoaded' = FALSE
    /\ UNCHANGED <<exportMonth, pbPc, pbBack, pbResult, pbNow, pbExamined, pbRequests>>
    /\ UNCHANGED notPb

NextPb ==
    \/ PbCall
    \/ PbMonth
    \/ PbCheckCache
    \/ PbDownload
    \/ PbDownloadFails
    \/ PbValidate
    \/ PbExcept
    \/ PbCrash
    \/ PbDone
    \/ TimePasses

SpecPb == InitPb /\ [][NextPb]_vars

(***************************************************************************)
(* Claims about purplebook_download_latest                                 *)
(***************************************************************************)
\* the file begins with an HTML doctype or tag
StartsWithHtml(bytes) == bytes # <<>> /\ Head(bytes) \in {"doctype", "tag"}

\* the file holds the CSV header signature
HasSignature(bytes) == Contains(bytes, "hdr")

\* C3: the path purplebook_download_latest returns names a file that is
\* there, does not begin with an HTML doctype or tag, and holds the CSV header
\* signature, whether it was found in the cache or just downloaded.
C3_ReturnedFileIsValid ==
    pbPc = "returned" =>
        /\ pbResult \in Months
        /\ pbFile[pbResult] # NoFile
        /\ ~StartsWithHtml(pbFile[pbResult].bytes)
        /\ HasSignature(pbFile[pbResult].bytes)
        /\ looks_like_csv(pbFile[pbResult])

\* a path has been returned for a month before the current one
C3_Witness ==
    /\ pbPc = "returned"
    /\ pbResult > 0
    /\ looks_like_csv(pbFile[pbResult])

\* the bytes at a month's canonical path, whatever their age
BytesAt(files, mo) == files[mo].bytes

\* C4: a validated file cached at a month's path is removed or overwritten
\* only by a newly downloaded file that is whole and passes validation.
C4_ReplacedOnlyByValidatedFile ==
    [][\A mo \in Months :
          (looks_like_csv(pbFile[mo]) /\ BytesAt(pbFile, mo)' # BytesAt(pbFile, mo)) =>
              looks_like_csv(pbFile'[mo])]_vars

\* the month before a month <<yy, mm>>, mm counted from 0 for January
PrevMonth(ym) == IF ym[2] = 0 THEN <<ym[1] - 1, 11>> ELSE <<ym[1], ym[2] - 1>>

\* the calendar month the clock is in
CurrentMonth(now) == <<now.tm_year, now.tm_mon - 1>>

\* the last month that is over
LastCompletedMonth(now) == PrevMonth(CurrentMonth(now))

\* each month examined is the month before the one examined just before it
StrictlyBackward(months) ==
    \A i \in 2..Len(months) : months[i] = PrevMonth(months[i - 1])

\* the months examined before the last one have left no file, and a path
\* that is returned is the path of the last month examined
StopsAtFirstValidated ==
    /\ \A i \in 1..(Len(pbExamined) - 1) : pbFile[i - 1] = NoFile
    /\ pbPc = "returned" =>
           /\ pbResult = Len(pbExamined) - 1
           /\ looks_like_csv(pbFile[pbResult])

\* C18 as stated: the months are examined in strictly backward calendar
\* order, beginning at the most recently completed month, and the first
\* month with a validated file is returned without examining an earlier one.
C18_FromLastCompletedMonth ==
    /\ pbExamined # <<>> => pbExamined[1] = LastCompletedMonth(pbNow)
    /\ StrictlyBackward(pbExamined)
    /\ StopsAtFirstValidated

\* C18 amended: the months are examined in strictly backward calendar order,
\* one month per step with the year decremented when passing January,
\* beginning at the current calendar month, and the first month with a
\* validated file is returned without examining an earlier one.
C18_FromCurrentMonth ==
    /\ pbExamined # <<>> => pbExamined[1] = CurrentMonth(pbNow)
    /\ StrictlyBackward(pbExamined)
    /\ StopsAtFirstValidated

\* called in January, the third month examined is November of the year
\* before, and its file is returned
C18_Witness ==
    /\ pbPc = "returned"
    /\ pbNow.tm_mon = 1
    /\ pbExamined = <<<<2026, 0>>, <<2025, 11>>, <<2025, 10>>>>
    /\ pbResult = 2

\* the statements of the loop body: each of them is over in bounded time
\* (download_to gives up after TIMEOUT_S)
PbRun ==
    \/ PbMonth
    \/ PbCheckCache
    \/ PbDownload
    \/ PbDownloadFails
    \/ PbValidate
    \/ PbExcept

SpecPbLive == InitPb /\ [][NextPb]_vars /\ WF_vars(PbRun)

\* no file at a month's path fails the validation
NoBadFile == \A mo \in Months : pbFile[mo] # NoFile => looks_like_csv(pbFile[mo])

\* C19: a call ends (or its process is stopped); it asks for at most 18
\* downloads, at most one per month examined; and when none of the 18 months
\* has a validated file it raises, returns no path, and leaves no file that
\* fails the validation at any of the 18 month paths.
C19_TerminatesWithin18 ==
    /\ [](pbRequests <= Len(pbExamined) /\ Len(pbExamined) <= WalkBack)
    /\ [](pbPc = "raised" =>
            /\ Len(pbExamined) = WalkBack
            /\ pbResult = -1
            /\ NoBadFile)
    /\ (pbPc = "month" ~> pbPc \in {"returned", "raised", "idle"})

\* 18 downloads were asked for and the call has raised
C19_Witness ==
    /\ pbPc = "raised"
    /\ pbRequests = WalkBack
    /\ pbResult = -1

\* C20: once a load has returned a path, and until the cache has aged, no
\* further call asks for a download.
C20_NoDownloadAfterLoad == [][pbLoaded => pbRequests' <= pbRequests]_vars

(***************************************************************************)
(* Several processes in purplebook_download_latest at the turn of the loop *)
(* for the same month (lines 734-755).  download_to installs the whole     *)
(* body with one rename, or raises.  A process ends the turn with the path *)
(* returned, or goes on to the month before.                               *)
(***************************************************************************)
\* a validated file, downloaded more than max_age_days ago
StaleExport == [bytes |-> <<"hdr">>, fresh |-> FALSE]

InitPbRace ==
    /\ rcFile \in {NoFile, StaleExport}
    /\ rcPc = [p \in Procs |-> "idle"]
    /\ PbAloneIdle
    /\ NdcIdle
    /\ DlIdle
    /\ MainIdle
    /\ LoadIdle
    /\ FnIdle

\* the loop of the process comes to the month
RcCall(p) ==
    /\ rcPc[p] = "idle"
    /\ rcPc' = [rcPc EXCEPT ![p] = "check"]
    /\ UNCHANGED rcFile
    /\ UNCHANGED notRc

\* lines 734-740
RcCheckCache(p) ==
    /\ rcPc[p] = "check"
    /\ IF cache_is_fresh(rcFile)
       THEN IF looks_like_csv(rcFile)
            THEN /\ rcPc' = [rcPc EXCEPT ![p] = "returned"]
                 /\ UNCHANGED rcFile
            ELSE /\ rcFile' = NoFile
                 /\ rcPc' = [rcPc EXCEPT ![p] = "download"]
       ELSE /\ rcPc' = [rcPc EXCEPT ![p] = "download"]
            /\ UNCHANGED rcFile
    /\ UNCHANGED notRc

\* line 742: download_to(url, dest) installs a body, or raises
RcDownload(p) ==
    /\ rcPc[p] = "download"
    /\ \/ /\ \E b \in Bodies : rcFile' = [bytes |-> b, fresh |-> TRUE]
          /\ rcPc' = [rcPc EXCEPT ![p] = "validate"]
       \/ /\ rcPc' = [rcPc EXCEPT ![p] = "except"]
          /\ UNCHANGED rcFile
    /\ UNCHANGED notRc

\* lines 746-749: looks_like_csv(dest) of whatever is at dest now
RcValidate(p) ==
    /\ rcPc[p] = "validate"
    /\ rcPc' = [rcPc EXCEPT ![p] = IF looks_like_csv(rcFile) THEN "returned" ELSE "except"]
    /\ UNCHANGED rcFile
    /\ UNCHANGED notRc

\* lines 750-755: dest.unlink(missing_ok=True), then the month before
RcExcept(p) ==
    /\ rcPc[p] = "except"
    /\ rcFile' = NoFile
    /\ rcPc' = [rcPc EXCEPT ![p] = "moved on"]
    /\ UNCHANGED notRc

NextPbRace ==
    \E p \in Procs :
        \/ RcCall(p)
        \/ RcCheckCache(p)
        \/ RcDownload(p)
        \/ RcValidate(p)
        \/ RcExcept(p)

SpecPbRace == InitPbRace /\ [][NextPbRace]_vars

\* C28: when all processes have finished with the month and one of them has
\* returned its path, the file at the path is there and valid: no failure
\* path of another process has removed it.
C28_ReturnedPathStaysValid ==
    ((\A p \in Procs : rcPc[p] \in {"returned", "moved on"})
        /\ (\E p \in Procs : rcPc[p] = "returned")) => looks_like_csv(rcFile)

(***************************************************************************)
(* main: the resolution of one query (lines 1507-1799).  Every call of a   *)
(* collaborator is one step; its answer is chosen by the environment: it   *)
(* raises, or it returns nothing, or it returns a result.  A note is the   *)
(* pair of its kind and the step it is about.                              *)
(***************************************************************************)
Kinds == {"set_id", "ndc", "name"}

Picks == 0..(MaxCands + 1)

Args == [kind : Kinds, pick : Picks, candidates : BOOLEAN,
         blocks : {S \in SUBSET Blocks : Cardinality(S) <= MaxRequested}]

InitMain ==
    /\ args \in Args
    /\ mpc = "classify"
    /\ rxcui = FALSE
    /\ rx_name = FALSE
    /\ ndc_set_id = FALSE
    /\ label_candidates = 0
    /\ label = FALSE
    /\ setid = FALSE
    /\ outKeys = {}
    /\ notes = <<>>
    /\ lookups = <<>>
    /\ attempted = {}
    /\ failed = {}
    /\ NdcIdle
    /\ DlIdle
    /\ PbIdle
    /\ LoadIdle
    /\ FnIdle

\* out["notes"].append(...)
Note(kind, about) == Append(notes, <<kind, about>>)

\* lines 1798-1799: an exception out of the try block ends the resolution
\* with out["error"] set
Raises(call) ==
    /\ outKeys' = outKeys \cup {"error"}
    /\ failed' = failed \cup {call}
    /\ mpc' = "done"

\* lines 1513-1518, 1536-1537: the type of the input
Classify ==
    /\ mpc = "classify"
    /\ outKeys' = outKeys \cup {"input.type"}
    /\ ndc_set_id' = (args.kind = "set_id")
    /\ mpc' = CASE args.kind = "set_id" -> "branch"
              [] args.kind = "ndc" -> "ndc_lookup"
              [] OTHER -> "rxnorm"
    /\ UNCHANGED <<args, rxcui, rx_name, label_candidates, label, setid, notes,
                   lookups, attempted, failed>>
    /\ UNCHANGED notMain

\* lines 1519-1535: openfda_ndc_lookup; the results may carry a set id, an RxCUI
NdcLookup ==
    /\ mpc = "ndc_lookup"
    /\ \/ /\ Raises("ndc_lookup")
          /\ UNCHANGED <<rxcui, ndc_set_id>>
       \/ /\ outKeys' = outKeys \cup {"openfda.ndc_results"}
          /\ ndc_set_id' \in BOOLEAN
          /\ rxcui' \in BOOLEAN
          /\ mpc' = "branch"
          /\ UNCHANGED failed
    /\ UNCHANGED <<args, rx_name, label_candidates, label, setid, notes, lookups, attempted>>
    /\ UNCHANGED notMain

\* lines 1540-1546: rxnorm_approximate and pick_best_candidate
Rxnorm ==
    /\ mpc = "rxnorm"
    /\ \/ /\ Raises("rxnorm")
          /\ UNCHANGED rxcui
       \/ \E best \in {"none", "no_rxcui", "rxcui"} :
             /\ outKeys' = outKeys \cup {"rxnorm.candidates"}
                                   \cup (IF best = "none" THEN {} ELSE {"rxnorm.best"})
             /\ rxcui' = (best = "rxcui")
             /\ mpc' = "branch"
             /\ UNCHANGED failed
    /\ UNCHANGED <<args, rx_name, ndc_set_id, label_candidates, label, setid, notes,
                   lookups, attempted>>
    /\ UNCHANGED notMain

\* line 1548 and lines 1792-1796: without an RxCUI and a set id there is
\* nothing to look up
NoIdentity_silent ==
    /\ mpc = "branch"
    /\ IF rxcui \/ ndc_set_id
       THEN /\ mpc' = "rx_name"
            /\ UNCHANGED notes
       ELSE /\ mpc' = "done"
            /\ UNCHANGED notes
    /\ UNCHANGED <<args, rxcui, rx_name, ndc_set_id, label_candidates, label, setid,
                   outKeys, lookups, attempted, failed>>
    /\ UNCHANGED notMain

NoIdentity ==
    /\ mpc = "branch"
    /\ IF rxcui \/ ndc_set_id
       THEN /\ mpc' = "rx_name"
            /\ UNCHANGED notes
       ELSE /\ mpc' = "done"
            /\ notes' = IF args.kind = "ndc"
                        THEN Note("No openFDA NDC match found for that code.", "ndc_lookup")
                        ELSE Note("Could not resolve RxCUI from input.", "rxnorm")
    /\ UNCHANGED <<args, rxcui, rx_name, ndc_set_id, label_candidates, label, setid,
                   outKeys, lookups, attempted, failed>>
    /\ UNCHANGED notMain

\* lines 1549-1552: rxnorm_name_for_rxcui
RxName ==
    /\ mpc = "rx_name"
    /\ IF rxcui
       THEN \/ /\ Raises("rx_name")
               /\ UNCHANGED rx_name
            \/ /\ rx_name' \in BOOLEAN
               /\ outKeys' = outKeys \cup {"rxnorm.rxcui", "rxnorm.name"}
               /\ mpc' = "candidates"
               /\ UNCHANGED failed
       ELSE /\ mpc' = "candidates"
            /\ UNCHANGED <<rx_name, outKeys, failed>>
    /\ UNCHANGED <<args, rxcui, ndc_set_id, label_candidates, label, setid, notes,
                   lookups, attempted>>
    /\ UNCHANGED notMain

\* lines 1554-1558: openfda_label_candidates, scored, best first
LabelCandidates ==
    /\ mpc = "candidates"
    /\ IF args.kind = "name" /\ (args.candidates \/ args.pick # 0)
       THEN \/ /\ Raises("candidates")
               /\ UNCHANGED <<label_candidates, lookups>>
            \/ /\ label_candidates' \in 0..MaxCands
               /\ lookups' = Append(lookups, "candidates")
               /\ outKeys' = outKeys \cup {"openfda.candidates"}
               /\ mpc' = "by_set_id"
               /\ UNCHANGED failed
       ELSE /\ mpc' = "by_set_id"
            /\ UNCHANGED <<label_candidates, lookups, outKeys, failed>>
    /\ UNCHANGED <<args, rxcui, rx_name, ndc_set_id, label, setid, notes, attempted>>
    /\ UNCHANGED notMain

\* lines 1560-1565: openfda_label_by_set_id
LabelBySetId ==
    /\ mpc = "by_set_id"
    /\ IF ndc_set_id
       THEN \/ /\ Raises("by_set_id")
               /\ UNCHANGED <<label, notes, lookups>>
            \/ /\ label' \in BOOLEAN
               /\ lookups' = Append(lookups, "by_set_id")
               /\ outKeys' = outKeys \cup {"openfda.ndc_set_id"}
               /\ notes' = IF label' THEN notes
                           ELSE Note("No openFDA label found by set_id from NDC/set_id lookup.",
                                     "by_set_id")
               /\ mpc' = "pick"
               /\ UNCHANGED failed
       ELSE /\ mpc' = "pick"
            /\ UNCHANGED <<label, notes, lookups, outKeys, failed>>
    /\ UNCHANGED <<args, rxcui, rx_name, ndc_set_id, label_candidates, setid, attempted>>
    /\ UNCHANGED notMain

\* lines 1567-1576: --pick N takes the Nth candidate
Pick ==
    /\ mpc = "pick"
    /\ IF ~label /\ args.pick # 0 /\ args.kind = "name"
       THEN IF label_candidates = 0
            THEN /\ notes' = Note("No label candidates available to pick from.", "pick")
                 /\ UNCHANGED <<label, lookups, outKeys>>
            ELSE IF args.pick <= label_candidates
                 THEN /\ label' = TRUE
                      /\ lookups' = Append(lookups, "pick")
                      /\ outKeys' = outKeys \cup {"openfda.picked"}
                      /\ UNCHANGED notes
                 ELSE /\ notes' = Note("--pick out of range", "pick")
                      /\ UNCHANGED <<label, lookups, outKeys>>
       ELSE UNCHANGED <<label, lookups, outKeys, notes>>
    /\ mpc' = "by_rxcui"
    /\ UNCHANGED <<args, rxcui, rx_name, ndc_set_id, label_candidates, setid, attempted, failed>>
    /\ UNCHANGED notMain

\* the variant that fetches by RxCUI whether or not there is a label
LabelByRxcui_ignores_label ==
    /\ mpc = "by_rxcui"
    /\ IF rxcui
       THEN \/ /\ Raises("by_rxcui")
               /\ UNCHANGED <<label, lookups>>
            \/ /\ label' \in BOOLEAN
               /\ lookups' = Append(lookups, "by_rxcui")
               /\ mpc' = "fallback"
               /\ UNCHANGED <<outKeys, failed>>
       ELSE /\ mpc' = "fallback"
            /\ UNCHANGED <<label, lookups, outKeys, failed>>
    /\ UNCHANGED <<args, rxcui, rx_name, ndc_set_id, label_candidates, setid, notes, attempted>>
    /\ UNCHANGED notMain

\* lines 1578-1579: openfda_label_by_rxcui
LabelByRxcui ==
    /\ mpc = "by_rxcui"
    /\ IF ~label /\ rxcui
       THEN \/ /\ Raises("by_rxcui")
               /\ UNCHANGED <<label, lookups>>
            \/ /\ label' \in BOOLEAN
               /\ lookups' = Append(lookups, "by_rxcui")
               /\ mpc' = "fallback"
               /\ UNCHANGED <<outKeys, failed>>
       ELSE /\ mpc' = "fallback"
            /\ UNCHANGED <<label, lookups, outKeys, failed>>
    /\ UNCHANGED <<args, rxcui, rx_name, ndc_set_id, label_candidates, setid, notes, attempted>>
    /\ UNCHANGED notMain

\* lines 1581-1586: the first candidate, or openfda_label_by_generic_name
Fallback ==
    /\ mpc = "fallback"
    /\ IF ~label /\ rx_name
       THEN /\ notes' = Note("No openFDA label found by RxCUI, falling back to generic/substance/brand candidates.",
                             "by_rxcui")
            /\ IF label_candidates > 0
               THEN /\ label' = TRUE
                    /\ lookups' = Append(lookups, "first_candidate")
                    /\ mpc' = "label"
                    /\ UNCHANGED <<outKeys, failed>>
               ELSE \/ /\ Raises("by_generic_name")
                       /\ UNCHANGED <<label, lookups>>
                    \/ /\ label' \in BOOLEAN
                       /\ lookups' = Append(lookups, "by_generic_name")
                       /\ mpc' = "label"
                       /\ UNCHANGED <<outKeys, failed>>
       ELSE /\ mpc' = "label"
            /\ UNCHANGED <<label, lookups, notes, outKeys, failed>>
    /\ UNCHANGED <<args, rxcui, rx_name, ndc_set_id, label_candidates, setid, attempted>>
    /\ UNCHANGED notMain

\* the variant that gives up without a note
Label_silent ==
    /\ mpc = "label"
    /\ IF label
       THEN /\ setid' \in BOOLEAN
            /\ outKeys' = outKeys \cup {"openfda.label"}
            /\ mpc' = "recalls"
            /\ UNCHANGED notes
       ELSE /\ mpc' = "medlineplus"
            /\ UNCHANGED <<setid, outKeys, notes>>
    /\ UNCHANGED <<args, rxcui, rx_name, ndc_set_id, label_candidates, label, lookups,
                   attempted, failed>>
    /\ UNCHANGED notMain

\* lines 1588-1633 and 1760-1761: the label block, or the note that there is none
Label ==
    /\ mpc = "label"
    /\ IF label
       THEN /\ setid' \in BOOLEAN
            /\ outKeys' = outKeys \cup {"openfda.label"}
            /\ mpc' = "recalls"
            /\ UNCHANGED notes
       ELSE /\ notes' = Note("No openFDA label match found.", "label")
            /\ mpc' = "medlineplus"
            /\ UNCHANGED <<setid, outKeys>>
    /\ UNCHANGED <<args, rxcui, rx_name, ndc_set_id, label_candidates, label, lookups,
                   attempted, failed>>
    /\ UNCHANGED notMain

\* the enrichment blocks, lines 1635-1758, in the order of the code
\* lines 1636-1660: openfda_enforcement_search, which raises on anything but a 404
Recalls ==
    /\ mpc = "recalls"
    /\ IF "recalls" \in args.blocks
       THEN /\ attempted' = attempted \cup {"recalls"}
            /\ \/ Raises("recalls")
               \/ /\ outKeys' = outKeys \cup {"openfda.recalls"}
                  /\ mpc' = "shortages"
                  /\ UNCHANGED failed
       ELSE /\ mpc' = "shortages"
            /\ UNCHANGED <<outKeys, attempted, failed>>
    /\ UNCHANGED notes
    /\ UNCHANGED <<args, rxcui, rx_name, ndc_set_id, label_candidates, label, setid, lookups>>
    /\ UNCHANGED notMain

\* lines 1663-1687: openfda_shortages_search
Shortages ==
    /\ mpc = "shortages"
    /\ IF "shortages" \in args.blocks
       THEN /\ attempted' = attempted \cup {"shortages"}
            /\ \/ Raises("shortages")
               \/ /\ outKeys' = outKeys \cup {"openfda.shortages"}
                  /\ mpc' = "faers"
                  /\ UNCHANGED failed
       ELSE /\ mpc' = "faers"
            /\ UNCHANGED <<outKeys, attempted, failed>>
    /\ UNCHANGED notes
    /\ UNCHANGED <<args, rxcui, rx_name, ndc_set_id, label_candidates, label, setid, lookups>>
    /\ UNCHANGED notMain

\* lines 1690-1703: openfda_event_count
Faers ==
    /\ mpc = "faers"
    /\ IF "faers" \in args.blocks
       THEN /\ attempted' = attempted \cup {"faers"}
            /\ \/ Raises("faers")
               \/ /\ outKeys' = outKeys \cup {"openfda.faers"}
                  /\ mpc' = "rxclass"
                  /\ UNCHANGED failed
       ELSE /\ mpc' = "rxclass"
            /\ UNCHANGED <<outKeys, attempted, failed>>
    /\ UNCHANGED notes
    /\ UNCHANGED <<args, rxcui, rx_name, ndc_set_id, label_candidates, label, setid, lookups>>
    /\ UNCHANGED notMain

\* lines 1706-1708: rxclass_by_rxcui
RxClass ==
    /\ mpc = "rxclass"
    /\ IF "rxclass" \in args.blocks /\ rxcui
       THEN /\ attempted' = attempted \cup {"rxclass"}
            /\ \/ Raises("rxclass")
               \/ /\ outKeys' = outKeys \cup {"rxclass"}
                  /\ mpc' = "interactions"
                  /\ UNCHANGED failed
       ELSE /\ mpc' = "interactions"
            /\ UNCHANGED <<outKeys, attempted, failed>>
    /\ UNCHANGED notes
    /\ UNCHANGED <<args, rxcui, rx_name, ndc_set_id, label_candidates, label, setid, lookups>>
    /\ UNCHANGED notMain

\* lines 1711-1720: rxnav_interactions_by_rxcui, inside its own try/except
Interactions ==
    /\ mpc = "interactions"
    /\ IF "interactions" \in args.blocks /\ rxcui
       THEN /\ attempted' = attempted \cup {"interactions"}
            /\ \/ /\ outKeys' = outKeys \cup {"rxnav.interactions"}
                  /\ UNCHANGED <<notes, failed>>
               \/ /\ notes' = Note("RxNav interactions lookup failed", "interactions")
                  /\ failed' = failed \cup {"interactions"}
                  /\ UNCHANGED outKeys
       ELSE UNCHANGED <<outKeys, notes, attempted, failed>>
    /\ mpc' = "chem"
    /\ UNCHANGED <<args, rxcui, rx_name, ndc_set_id, label_candidates, label, setid, lookups>>
    /\ UNCHANGED notMain

\* lines 1723-1734: pubchem_compound_properties, which catches what its
\* request raises and returns None (lines 586-589)
Chem ==
    /\ mpc = "chem"
    /\ IF "chem" \in args.blocks
       THEN /\ attempted' = attempted \cup {"chem"}
            /\ \E answer \in {"raises", "no_match", "match"} :
                  /\ failed' = IF answer = "raises" THEN failed \cup {"chem"} ELSE failed
                  /\ IF answer = "match"
                     THEN /\ outKeys' = outKeys \cup {"pubchem.compound"}
                          /\ UNCHANGED notes
                     ELSE /\ notes' = Note("PubChem lookup returned no match (try a generic ingredient name).",
                                           "chem")
                          /\ UNCHANGED outKeys
       ELSE UNCHANGED <<outKeys, notes, attempted, failed>>
    /\ mpc' = "dailymed"
    /\ UNCHANGED <<args, rxcui, rx_name, ndc_set_id, label_candidates, label, setid, lookups>>
    /\ UNCHANGED notMain

\* lines 1737-1748: dailymed_enrich when the label has a set id, a note otherwise
DailyMed ==
    /\ mpc = "dailymed"
    /\ IF "dailymed" \in args.blocks
       THEN IF setid
            THEN /\ attempted' = attempted \cup {"dailymed"}
                 /\ \/ Raises("dailymed")
                    \/ /\ outKeys' = outKeys \cup {"dailymed"}
                       /\ mpc' = "orangebook"
                       /\ UNCHANGED failed
                 /\ UNCHANGED notes
            ELSE /\ notes' = Note("DailyMed set_id not available for this label.", "dailymed")
                 /\ mpc' = "orangebook"
                 /\ UNCHANGED <<outKeys, attempted, failed>>
       ELSE /\ mpc' = "orangebook"
            /\ UNCHANGED <<outKeys, notes, attempted, failed>>
    /\ UNCHANGED <<args, rxcui, rx_name, ndc_set_id, label_candidates, label, setid, lookups>>
    /\ UNCHANGED notMain

\* lines 1751-1753: orangebook_search, which loads the dataset
OrangeBook ==
    /\ mpc = "orangebook"
    /\ IF "orangebook" \in args.blocks
       THEN /\ attempted' = attempted \cup {"orangebook"}
            /\ \/ Raises("orangebook")
               \/ /\ outKeys' = outKeys \cup {"orangebook"}
                  /\ mpc' = "purplebook"
                  /\ UNCHANGED failed
       ELSE /\ mpc' = "purplebook"
            /\ UNCHANGED <<outKeys, attempted, failed>>
    /\ UNCHANGED notes
    /\ UNCHANGED <<args, rxcui, rx_name, ndc_set_id, label_candidates, label, setid, lookups>>
    /\ UNCHANGED notMain

\* lines 1756-1758: purplebook_search, which loads the dataset
PurpleBook ==
    /\ mpc = "purplebook"
    /\ IF "purplebook" \in args.blocks
       THEN /\ attempted' = attempted \cup {"purplebook"}
            /\ \/ Raises("purplebook")
               \/ /\ outKeys' = outKeys \cup {"purplebook"}
                  /\ mpc' = "medlineplus"
                  /\ UNCHANGED failed
       ELSE /\ mpc' = "medlineplus"
            /\ UNCHANGED <<outKeys, attempted, failed>>
    /\ UNCHANGED notes
    /\ UNCHANGED <<args, rxcui, rx_name, ndc_set_id, label_candidates, label, setid, lookups>>
    /\ UNCHANGED notMain

\* lines 1763-1791: medlineplus_by_rxcui, inside its own try/except
MedlinePlus ==
    /\ mpc = "medlineplus"
    /\ IF rxcui
       THEN \/ /\ outKeys' = outKeys \cup {"medlineplus"}
               /\ UNCHANGED <<notes, failed>>
            \/ /\ notes' = Note("MedlinePlus Connect lookup failed", "medlineplus")
               /\ failed' = failed \cup {"medlineplus"}
               /\ UNCHANGED outKeys
       ELSE UNCHANGED <<outKeys, notes, failed>>
    /\ mpc' = "done"
    /\ UNCHANGED attempted
    /\ UNCHANGED <<args, rxcui, rx_name, ndc_set_id, label_candidates, label, setid, lookups>>
    /\ UNCHANGED notMain

NextMain ==
    \/ Classify
    \/ NdcLookup
    \/ Rxnorm
    \/ NoIdentity
    \/ RxName
    \/ LabelCandidates
    \/ LabelBySetId
    \/ Pick
    \/ LabelByRxcui
    \/ Fallback
    \/ Label
    \/ Recalls
    \/ Shortages
    \/ Faers
    \/ RxClass
    \/ Interactions
    \/ Chem
    \/ DailyMed
    \/ OrangeBook
    \/ PurpleBook
    \/ MedlinePlus

SpecMain == InitMain /\ [][NextMain]_vars

(***************************************************************************)
(* Claims about main                                                       *)
(***************************************************************************)
\* the keys of the record that hold an enrichment block
EnrichmentKeys == {"openfda.recalls", "openfda.shortages", "openfda.faers", "rxclass",
                   "rxnav.interactions", "pubchem.compound", "dailymed", "orangebook",
                   "purplebook"}

\* the notes hold an entry about the step
Noted(about) == \E i \in 1..Len(notes) : notes[i][2] = about

\* the block is asked for and its condition in the code holds
Due(b) ==
    /\ b \in args.blocks
    /\ b \in {"rxclass", "interactions"} => rxcui
    /\ b = "dailymed" => setid

\* C5: once the label is assembled, a failing collaborator of one enrichment
\* block becomes a note and nothing more: no error entry, and every other block
\* that is due has been attempted when the resolution ends.
C5_BlocksIndependent ==
    (mpc = "done" /\ "openfda.label" \in outKeys) =>
        /\ "error" \notin outKeys
        /\ \A b \in failed \cap Blocks : Noted(b)
        /\ \A b \in Blocks : Due(b) => b \in attempted

\* C6: when the resolution ends without a label and no collaborator raised,
\* the record has no error entry, at least one note and no enrichment block.
C6_NoMatchIsReported ==
    (mpc = "done" /\ ~label /\ failed = {}) =>
        /\ "error" \notin outKeys
        /\ Len(notes) >= 1
        /\ outKeys \cap EnrichmentKeys = {}
        /\ "openfda.label" \notin outKeys

\* no identity: blocks were asked for, every search answered, none with a match
C6_Witness ==
    /\ mpc = "done"
    /\ ~label /\ ~rxcui /\ ~ndc_set_id
    /\ failed = {}
    /\ args.blocks # {}
    /\ Noted("rxnorm")

\* the label fetch by set id was made and returned a label
SetIdLabelFound ==
    /\ \E i \in 1..Len(lookups) : lookups[i] = "by_set_id"
    /\ ~Noted("by_set_id")

\* C22: with a set id, supplied or derived from the NDC lookup, the fetch by
\* set id is the first label lookup, and a label it returns stays the label
\* of the record: no candidate search, pick or RxCUI fetch comes after it.
C22_SetIdLabelFirstAndKept ==
    /\ (ndc_set_id /\ lookups # <<>>) => lookups[1] = "by_set_id"
    /\ SetIdLabelFound => (label /\ lookups = <<"by_set_id">>)

\* an NDC whose lookup gave a set id and an RxCUI; the label came by set id
C22_Witness ==
    /\ mpc = "done"
    /\ args.kind = "ndc"
    /\ ndc_set_id /\ rxcui
    /\ SetIdLabelFound
    /\ "openfda.label" \in outKeys

\* the lookups were made in the order the ranks give
InRankOrder(rank(_)) ==
    \A i, j \in 1..Len(lookups) : i < j => rank(lookups[i]) < rank(lookups[j])

\* the chain as the code has it: the search of the candidates, the fetch by
\* set id, the pick, the fetch by RxCUI, then the first candidate or the
\* search by generic name
CodeRank(l) ==
    CASE l = "candidates" -> 1
      [] l = "by_set_id" -> 2
      [] l = "pick" -> 3
      [] l = "by_rxcui" -> 4
      [] OTHER -> 5

\* the chain with the scored candidates tried before the fetch by RxCUI
StatedRank(l) ==
    CASE l = "candidates" -> 1
      [] l = "by_set_id" -> 2
      [] l \in {"pick", "first_candidate"} -> 3
      [] l = "by_rxcui" -> 4
      [] OTHER -> 5

\* a resolution that had an identity, found no label and met no exception
\* has the note that no label matched; the note is there only without a label
GivesUpWithNote ==
    /\ (mpc = "done" /\ ~label /\ failed = {} /\ (rxcui \/ ndc_set_id)) => Noted("label")
    /\ Noted("label") => ~label

InitLoad ==
    /\ pdftotext \in BOOLEAN
    /\ obZip = "none"
    /\ obProducts = NoCached
    /\ obPc = "idle"
    /\ obResult = NoResult
    /\ niJson = NoCached
    /\ niPdf = NoCached
    /\ niTxt = "none"
    /\ niPc = "idle"
    /\ niResult = NoResult
    /\ plResult = NoResult
    /\ NdcIdle
    /\ DlIdle
    /\ PbIdle
    /\ MainIdle
    /\ FnIdle

\* orangebook_load is called
ObCall ==
    /\ obPc = "idle"
    /\ obPc' = "check"
    /\ obResult' = NoResult
    /\ UNCHANGED <<obZip, obProducts>>
    /\ UNCHANGED notOb

\* line 636: cache_is_fresh(p_products, max_age_days)
ObCheckFresh ==
    /\ obPc = "check"
    /\ obPc' = IF obProducts.holds # "none" /\ obProducts.fresh THEN "read" ELSE "download"
    /\ UNCHANGED <<obZip, obProducts, obResult>>
    /\ UNCHANGED notOb

\* line 639: download_to(url, p_zip) raises, or puts at p_zip what the server
\* sent: the zip, a zip without the member products.txt, or not a zip
ObDownload ==
    /\ obPc = "download"
    /\ \/ /\ obPc' = "raised"
          /\ obResult' = [kind |-> "raised", reason |-> "download failed"]
          /\ UNCHANGED obZip
       \/ /\ obZip' \in {"zip", "zip without products.txt", "not a zip"}
          /\ obPc' = "open"
          /\ UNCHANGED obResult
    /\ UNCHANGED obProducts
    /\ UNCHANGED notOb

\* lines 640-641: zipfile.ZipFile(p_zip) and z.open("products.txt")
ObOpenMember ==
    /\ obPc = "open"
    /\ CASE obZip = "zip" ->
              /\ obPc' = "write"
              /\ UNCHANGED obResult
         [] obZip = "zip without products.txt" ->
              /\ obPc' = "raised"
              /\ obResult' = [kind |-> "raised", reason |-> "KeyError: no products.txt in the zip"]
         [] OTHER ->
              /\ obPc' = "raised"
              /\ obResult' = [kind |-> "raised", reason |-> "BadZipFile"]
    /\ UNCHANGED <<obZip, obProducts>>
    /\ UNCHANGED notOb

\* line 642, p_products.write_bytes: the file is opened and truncated
ObWriteOpen ==
    /\ obPc = "write"
    /\ obProducts' = [holds |-> "partial", fresh |-> TRUE]
    /\ obPc' = "writing"
    /\ UNCHANGED <<obZip, obResult>>
    /\ UNCHANGED notOb

\* line 642, p_products.write_bytes: the bytes are written and the file closed
ObWriteClose ==
    /\ obPc = "writing"
    /\ obProducts' = [holds |-> "products", fresh |-> TRUE]
    /\ obPc' = "read"
    /\ UNCHANGED <<obZip, obResult>>
    /\ UNCHANGED notOb

\* lines 644-660: the rows of whatever products.txt holds
ObRead ==
    /\ obPc = "read"
    /\ obResult' = [kind |-> "rows", reason |-> obProducts.holds]
    /\ obPc' = "returned"
    /\ UNCHANGED <<obZip, obProducts>>
    /\ UNCHANGED notOb

\* the process stops inside orangebook_load
ObCrash ==
    /\ obPc \in {"check", "download", "open", "write", "writing", "read"}
    /\ obPc' = "idle"
    /\ UNCHANGED <<obZip, obProducts, obResult>>
    /\ UNCHANGED notOb

\* the call is over
ObDone ==
    /\ obPc \in {"returned", "raised"}
    /\ obPc' = "idle"
    /\ UNCHANGED <<obZip, obProducts, obResult>>
    /\ UNCHANGED notOb

\* niosh_hazardous_load is called
NiCall ==
    /\ niPc = "idle"
    /\ niPc' = "json"
    /\ niResult' = NoResult
    /\ UNCHANGED <<niJson, niPdf, niTxt>>
    /\ UNCHANGED notNi

\* lines 1053-1057: a fresh parsed file that loads is returned as it is
NiCachedJson ==
    /\ niPc = "json"
    /\ IF niJson.fresh /\ niJson.holds = "records"
       THEN /\ niPc' = "returned"
            /\ niResult' = [kind |-> "records", reason |-> "cached"]
       ELSE /\ niPc' = "tool"
            /\ UNCHANGED niResult
    /\ UNCHANGED <<niJson, niPdf, niTxt>>
    /\ UNCHANGED notNi

\* lines 1059-1066: without pdftotext the result says so
NiHavePdftotext ==
    /\ niPc = "tool"
    /\ IF pdftotext
       THEN /\ niPc' = "pdf"
            /\ UNCHANGED niResult
       ELSE /\ niPc' = "returned"
            /\ niResult' = [kind |-> "unavailable", reason |-> "pdftotext not installed"]
    /\ UNCHANGED <<niJson, niPdf, niTxt>>
    /\ UNCHANGED notNi

\* lines 1068-1070: download_to(NIOSH_HAZARDOUS_PDF_URL, p_pdf) when not fresh;
\* a text file made from the pdf before is older than the new pdf
NiDownloadPdf ==
    /\ niPc = "pdf"
    /\ IF niPdf.holds # "none" /\ niPdf.fresh
       THEN /\ niPc' = "txt"
            /\ UNCHANGED <<niPdf, niTxt, niResult>>
       ELSE \/ /\ niPc' = "raised"
               /\ niResult' = [kind |-> "raised", reason |-> "download failed"]
               /\ UNCHANGED <<niPdf, niTxt>>
            \/ /\ niPdf' = [holds |-> "pdf", fresh |-> TRUE]
               /\ niTxt' = IF niTxt = "none" THEN "none" ELSE "older"
               /\ niPc' = "txt"
               /\ UNCHANGED niResult
    /\ UNCHANGED niJson
    /\ UNCHANGED notNi

\* lines 1072-1074: pdftotext is run when the text is missing or older than the pdf
NiPdfToText ==
    /\ niPc = "txt"
    /\ IF niTxt = "current"
       THEN /\ niPc' = "parse"
            /\ UNCHANGED <<niTxt, niResult>>
       ELSE \/ /\ niPc' = "raised"
               /\ niResult' = [kind |-> "raised", reason |-> "CalledProcessError"]
               /\ UNCHANGED niTxt
            \/ /\ niTxt' = "current"
               /\ niPc' = "parse"
               /\ UNCHANGED niResult
    /\ UNCHANGED <<niJson, niPdf>>
    /\ UNCHANGED notNi

\* lines 1076-1090: the text is parsed, the object saved (a failure to save is
\* swallowed and may leave a file that does not load) and returned
NiParse ==
    /\ niPc = "parse"
    /\ \/ niJson' = [holds |-> "records", fresh |-> TRUE]
       \/ niJson' = [holds |-> "partial", fresh |-> TRUE]
       \/ UNCHANGED niJson
    /\ niResult' = [kind |-> "records", reason |-> "parsed"]
    /\ niPc' = "returned"
    /\ UNCHANGED <<niPdf, niTxt>>
    /\ UNCHANGED notNi

\* the process stops inside niosh_hazardous_load
NiCrash ==
    /\ niPc \in {"json", "tool", "pdf", "txt", "parse"}
    /\ niPc' = "idle"
    /\ UNCHANGED <<niJson, niPdf, niTxt, niResult>>
    /\ UNCHANGED notNi

\* the call is over
NiDone ==
    /\ niPc \in {"returned", "raised"}
    /\ niPc' = "idle"
    /\ UNCHANGED <<niJson, niPdf, niTxt, niResult>>
    /\ UNCHANGED notNi

\* lines 760-785: purplebook_load parses the file purplebook_download_latest
\* returns; what that raises (line 757) goes through to the caller
PurplebookLoad ==
    /\ \E months \in {"one month has the CSV", "content wrong for every month"} :
          plResult' = IF months = "one month has the CSV"
                      THEN [kind |-> "rows", reason |-> "csv"]
                      ELSE [kind |-> "raised",
                            reason |-> "Unable to download Purple Book CSV (tried 18 months)"]
    /\ plResult' # plResult
    /\ UNCHANGED <<pdftotext, obVars, niVars>>
    /\ UNCHANGED notLoad

\* max_age_days go by: no cached file is fresh
CacheAges ==
    /\ obProducts.fresh \/ niJson.fresh \/ niPdf.fresh
    /\ obProducts' = [obProducts EXCEPT !.fresh = FALSE]
    /\ niJson' = [niJson EXCEPT !.fresh = FALSE]
    /\ niPdf' = [niPdf EXCEPT !.fresh = FALSE]
    /\ UNCHANGED <<pdftotext, obZip, obPc, obResult, niTxt, niPc, niResult, plResult>>
    /\ UNCHANGED notLoad

NextLoad ==
    \/ ObCall
    \/ ObCheckFresh
    \/ ObDownload
    \/ ObOpenMember
    \/ ObWriteOpen
    \/ ObWriteClose
    \/ ObRead
    \/ ObCrash
    \/ ObDone
    \/ NiCall
    \/ NiCachedJson
    \/ NiHavePdftotext
    \/ NiDownloadPdf
    \/ NiPdfToText
    \/ NiParse
    \/ NiCrash
    \/ NiDone
    \/ PurplebookLoad
    \/ CacheAges

SpecLoad == InitLoad /\ [][NextLoad]_vars

(***************************************************************************)
(* Claims about the loaders                                                *)
(***************************************************************************)
\* the validation failures of the datasets, as the loaders name them
ValidationFailures == {"KeyError: no products.txt in the zip", "BadZipFile",
                       "pdftotext not installed",
                       "Unable to download Purple Book CSV (tried 18 months)"}

\* C7: a loader whose dataset fails validation ends with a structured
\* unavailable result that carries the reason; it does not end with an
\* exception and it yields no rows.
C7_ValidationFailureIsStructured ==
    \A r \in {obResult, niResult, plResult} :
        r.reason \in ValidationFailures => r.kind = "unavailable"

\* C21: wherever the process stopped during an earlier refresh, the table
\* orangebook_load parses is the complete extracted member products.txt,
\* never a truncated or partially written file.
C21_ParsedTableIsComplete ==
    obResult.kind = "rows" => obResult.reason = "products"

(***************************************************************************)
(* openfda_label_candidates: the scoring and the sort (lines 310-354).     *)
(* A name is a token: "q" is the query as _norm folds it, "Q" the same     *)
(* name in another case or spacing, "o" and "p" other names, " " a blank   *)
(* entry.  An effective_time is a string of digits.                        *)
(***************************************************************************)
\* _norm(s), line 306
Norm(x) == IF x = "Q" THEN "q" ELSE x

\* [_norm(str(x)) for x in _as_list(v) if str(x).strip()]
NormNames(xs) ==
    LET kept == SelectSeq(xs, LAMBDA x : x # " ")
    IN  [i \in 1..Len(kept) |-> Norm(kept[i])]

InSeq(x, xs) == \E i \in 1..Len(xs) : xs[i] = x

\* the code point order of the digits
DigitOrd(c) == CHOOSE n \in 0..9 : <<"0", "1", "2", "3", "4", "5", "6", "7", "8", "9">>[n + 1] = c

\* a < b for Python strings
RECURSIVE StrLess(_, _)
StrLess(a, b) ==
    IF b = <<>> THEN FALSE
    ELSE IF a = <<>> THEN TRUE
    ELSE IF Head(a) # Head(b) THEN DigitOrd(Head(a)) < DigitOrd(Head(b))
    ELSE StrLess(Tail(a), Tail(b))

score_label_penalty_always(lbl, query) ==
    LET subs == NormNames(lbl.substance_name)
        gens == NormNames(lbl.generic_name)
        brands == NormNames(lbl.brand_name)
        s0 == IF Len(subs) = 1 /\ ~query.looks_combo THEN 50
              ELSE IF Len(subs) > 1 THEN -30 ELSE 0
        s1 == IF InSeq(query.nm, subs) THEN 60 ELSE 0
        s2 == IF InSeq(query.nm, gens) THEN 40 ELSE 0
        s3 == IF InSeq(query.nm, brands) THEN 10 ELSE 0
    IN  <<s0 + s1 + s2 + s3, lbl.effective_time>>

score_label_no_single_bonus(lbl, query) ==
    LET subs == NormNames(lbl.substance_name)
        gens == NormNames(lbl.generic_name)
        brands == NormNames(lbl.brand_name)
        s0 == IF query.looks_combo THEN 0
              ELSE IF Len(subs) > 1 THEN -30 ELSE 0
        s1 == IF InSeq(query.nm, subs) THEN 60 ELSE 0
        s2 == IF InSeq(query.nm, gens) THEN 40 ELSE 0
        s3 == IF InSeq(query.nm, brands) THEN 10 ELSE 0
    IN  <<s0 + s1 + s2 + s3, lbl.effective_time>>

\* score_label(label), lines 327-352: the key (s, et)
score_label(lbl, query) ==
    LET subs == NormNames(lbl.substance_name)
        gens == NormNames(lbl.generic_name)
        brands == NormNames(lbl.brand_name)
        s0 == IF query.looks_combo THEN 0
              ELSE IF Len(subs) = 1 THEN 50
              ELSE IF Len(subs) > 1 THEN -30 ELSE 0
        s1 == IF InSeq(query.nm, subs) THEN 60 ELSE 0
        s2 == IF InSeq(query.nm, gens) THEN 40 ELSE 0
        s3 == IF InSeq(query.nm, brands) THEN 10 ELSE 0
    IN  <<s0 + s1 + s2 + s3, lbl.effective_time>>

\* k1 < k2 for the tuples (s, et)
KeyLess(k1, k2) == k1[1] < k2[1] \/ (k1[1] = k2[1] /\ StrLess(k1[2], k2[2]))

\* x put into a list sorted largest key first, behind the entries whose key is
\* not smaller: entries of equal key stay in the order they came in
RECURSIVE InsertByKey(_, _, _)
InsertByKey(x, sorted, query) ==
    IF sorted = <<>> THEN <<x>>
    ELSE IF KeyLess(score_label(Head(sorted), query), score_label(x, query))
         THEN <<x>> \o sorted
         ELSE <<Head(sorted)>> \o InsertByKey(x, Tail(sorted), query)

\* sorted(res, key=score_label, reverse=True), which is stable
RECURSIVE SortedReverse(_, _, _)
SortedReverse(res, done, query) ==
    IF res = <<>> THEN done
    ELSE SortedReverse(Tail(res), InsertByKey(Head(res), done, query), query)

\* openfda_label_candidates(name) when the upstream returned res
openfda_label_candidates(res, query) ==
    IF res = <<>> THEN <<>> ELSE SortedReverse(res, <<>>, query)

SubstanceLists == {<<>>, <<"Q">>, <<"o">>, <<"p">>, <<"Q", "o">>, <<"Q", " ">>}

EffectiveTimes == {<<>>, <<"1", "9">>, <<"2">>}

Labels == [substance_name : SubstanceLists, generic_name : {<<>>, <<"Q">>},
           brand_name : {<<>>, <<"q">>}, effective_time : EffectiveTimes]

Queries == [nm : {"q"}, looks_combo : BOOLEAN]

InitScore ==
    /\ fnName = "none"
    /\ fnArgs \in [res : UNION {[1..n -> Labels] : n \in 0..MaxLabels}, query : Queries]
    /\ fnResult = NoCall
    /\ NdcIdle
    /\ DlIdle
    /\ PbIdle
    /\ MainIdle
    /\ LoadIdle

ScoreAndSort ==
    /\ fnName = "none"
    /\ fnName' = "openfda_label_candidates"
    /\ fnResult' = openfda_label_candidates(fnArgs.res, fnArgs.query)
    /\ UNCHANGED fnArgs
    /\ UNCHANGED notFn

NextScore ==
    \/ ScoreAndSort

SpecScore == InitScore /\ [][NextScore]_vars

(***************************************************************************)
(* Claims about the candidate ranking                                      *)
(***************************************************************************)
Scored == fnName = "openfda_label_candidates"

\* the list in the opposite order
Reversed(xs) == [i \in 1..Len(xs) |-> xs[Len(xs) + 1 - i]]

\* C12: the ranking does not depend on the order of the upstream results: the
\* same labels returned in the opposite order are ranked the same.
C12_RankingIndependentOfInputOrder ==
    Scored => fnResult = openfda_label_candidates(Reversed(fnArgs.res), fnArgs.query)

\* the substances of the label: the entries that are not blank
Substances(lbl) == SelectSeq(lbl.substance_name, LAMBDA x : x # " ")

\* exactly one substance, and it is the query up to case and spacing
SingleExact(lbl, query) ==
    /\ Len(Substances(lbl)) = 1
    /\ Norm(Substances(lbl)[1]) = query.nm

\* C13: when the query is not a multi-ingredient query, no label with more
\* than one substance is ranked ahead of a label whose one substance is the
\* query.
C13_SingleExactAhead ==
    (Scored /\ ~fnArgs.query.looks_combo) =>
        \A i, j \in 1..Len(fnResult) :
            (SingleExact(fnResult[j], fnArgs.query) /\ Len(Substances(fnResult[i])) > 1)
                => j < i

\* a single exact match was ranked ahead of a multi-substance label that came
\* first and has every name matching and a later effective_time
C13_Witness ==
    /\ Scored
    /\ ~fnArgs.query.looks_combo
    /\ Len(fnResult) = 2
    /\ SingleExact(fnResult[1], fnArgs.query)
    /\ fnResult[1] = fnArgs.res[2]
    /\ fnResult[1].generic_name = <<>> /\ fnResult[1].brand_name = <<>>
    /\ fnResult[1].effective_time = <<>>
    /\ Len(Substances(fnResult[2])) > 1
    /\ fnResult[2].generic_name # <<>> /\ fnResult[2].brand_name # <<>>
    /\ fnResult[2].effective_time # <<>>

\* how many times x occurs in xs
Occurrences(x, xs) == Cardinality({i \in 1..Len(xs) : xs[i] = x})

\* the same entries, each as many times
IsPermutation(xs, ys) ==
    /\ Len(xs) = Len(ys)
    /\ \A i \in 1..Len(xs) : Occurrences(xs[i], xs) = Occurrences(xs[i], ys)

\* some entry of the list is the query up to case and spacing
NamesQuery(xs, query) == \E i \in 1..Len(xs) : Norm(xs[i]) = query.nm

\* the score as the documentation gives it
DocumentedScore(lbl, query) ==
    (IF ~query.looks_combo /\ Len(Substances(lbl)) = 1 THEN 50 ELSE 0)
        - (IF ~query.looks_combo /\ Len(Substances(lbl)) > 1 THEN 30 ELSE 0)
        + (IF NamesQuery(lbl.substance_name, query) THEN 60 ELSE 0)
        + (IF NamesQuery(lbl.generic_name, query) THEN 40 ELSE 0)
        + (IF NamesQuery(lbl.brand_name, query) THEN 10 ELSE 0)

\* C25: the candidates are a permutation of the upstream results, in
\* non-increasing order of the documented score (50 for one substance and
\* -30 for several, both only for a query that is not multi-ingredient; 60,
\* 40, 10 for the query being a substance, generic, brand name), and among
\* equal scores the lexicographically larger effective_time comes first.
C25_PermutationByScoreThenTime ==
    Scored =>
        /\ IsPermutation(fnResult, fnArgs.res)
        /\ \A i, j \in 1..Len(fnResult) :
              i < j =>
                 LET si == DocumentedScore(fnResult[i], fnArgs.query)
                     sj == DocumentedScore(fnResult[j], fnArgs.query)
                 IN  /\ si >= sj
                     /\ si = sj => ~StrLess(fnResult[i].effective_time,
                                            fnResult[j].effective_time)

\* two labels of equal score for a multi-ingredient query, one of them with
\* several substances; the one with the later effective_time came second and
\* is ranked first
C25_Witness ==
    /\ Scored
    /\ fnArgs.query.looks_combo
    /\ Len(fnResult) = 2
    /\ fnResult[1] = fnArgs.res[2]
    /\ Len(Substances(fnResult[1])) > 1
    /\ Len(Substances(fnResult[2])) = 1
    /\ DocumentedScore(fnResult[1], fnArgs.query) = DocumentedScore(fnResult[2], fnArgs.query)
    /\ StrLess(fnResult[2].effective_time, fnResult[1].effective_time)

(***************************************************************************)
(* parse_niosh_hazardous_pdf_text (lines 926-1047).  The text is a         *)
(* sequence of stripped lines, a line is one of                            *)
(*   "Table 1", "Table 2"  the table markers                               *)
(*   "Table 3"             another line that starts with "Table "          *)
(*   "", "Drug"            a blank line, a column header                   *)
(*   "Yes", "No", "7"      a flag, a page number                           *)
(*   "10:00"               a line that begins an AHFS classification       *)
(*   "abc", "xyz"          drug names in lower case                        *)
(*   "Abc"                 the name abc, capitalized                       *)
(*   "+"                   a line of punctuation only                      *)
(*   "drugs reviewed"      running text of the document                    *)
(*   "long"                a line of more than 60 characters               *)
(***************************************************************************)
is_header_line(ln) == ln = "Drug"

looks_like_ahfs(ln) == ln = "10:00"

\* re.match(r"^[a-z0-9][a-z0-9\-\s]+$", ln) and not re.search(r"\d", ln)
LooksLikeNewName(ln) == ln \in {"abc", "xyz", "drugs reviewed"}

\* ln.startswith("Table ")
StartsWithTable(ln) == ln \in {"Table 1", "Table 2", "Table 3"}

\* one of the phrases of line 1021 is in the line
IsRunningText(ln) == ln = "drugs reviewed"

\* len(ln) <= 60
IsShort(ln) == ln # "long"

\* take_yesno(start_i, n), lines 952-959; k counts lines from 0
RECURSIVE take_yesno(_, _, _, _)
take_yesno(lines, k, n, acc) ==
    IF k < Len(lines) /\ Len(acc) < n
    THEN take_yesno(lines, k + 1, n,
                    IF lines[k + 1] \in {"Yes", "No"} THEN Append(acc, lines[k + 1]) ELSE acc)
    ELSE acc

\* the variant that hands back the index of the classification line itself
AhfsEnd_stays(lines, j) == j - 1

\* the inner loop of lines 995-1000: the index behind the classification block
RECURSIVE AhfsEnd(_, _)
AhfsEnd(lines, j) ==
    IF j < Len(lines) /\ lines[j + 1] # "" /\ lines[j + 1] \notin {"Yes", "No"}
         /\ ~StartsWithTable(lines[j + 1]) /\ ~LooksLikeNewName(lines[j + 1])
    THEN AhfsEnd(lines, j + 1)
    ELSE j

\* pending_name[-3:]
Last3(xs) == IF Len(xs) <= 3 THEN xs ELSE SubSeq(xs, Len(xs) - 2, Len(xs))

FlagAt(yn, n) == IF Len(yn) >= n THEN yn[n] ELSE "None"

\* the variant whose table markers leave the pending name as it is
NioshIteration_keeps_pending(lines, st) ==
    LET ln == lines[st.i + 1]
    IN  IF ln = "Table 1" THEN [st EXCEPT !.table = 1, !.i = st.i + 1]
        ELSE IF ln = "Table 2" THEN [st EXCEPT !.table = 2, !.i = st.i + 1]
        ELSE IF st.table = 0 THEN [st EXCEPT !.i = st.i + 1]
        ELSE IF ln = "" \/ is_header_line(ln) THEN [st EXCEPT !.pending = <<>>, !.i = st.i + 1]
        ELSE IF ln \in {"Yes", "No", "7"} THEN [st EXCEPT !.i = st.i + 1]
        ELSE IF looks_like_ahfs(ln)
             THEN LET j == AhfsEnd(lines, st.i + 1)
                      yn == take_yesno(lines, j, 2, <<>>)
                      rec == [drug |-> st.pending, table |-> st.table,
                              line |-> st.i + 1,
                              ahfs |-> SubSeq(lines, st.i + 1, j),
                              flags |-> <<FlagAt(yn, 1), FlagAt(yn, 2)>>]
                  IN  [i |-> j, table |-> st.table, pending |-> <<>>,
                       records |-> IF st.pending # <<>> THEN Append(st.records, rec)
                                   ELSE st.records]
        ELSE IF IsRunningText(ln) THEN [st EXCEPT !.pending = <<>>, !.i = st.i + 1]
        ELSE IF IsShort(ln) THEN [st EXCEPT !.pending = Last3(Append(st.pending, ln)),
                                            !.i = st.i + 1]
        ELSE [st EXCEPT !.i = st.i + 1]

\* one iteration of the while loop of lines 962-1035
NioshIteration(lines, st) ==
    LET ln == lines[st.i + 1]
    IN  IF ln = "Table 1" THEN [st EXCEPT !.table = 1, !.pending = <<>>, !.i = st.i + 1]
        ELSE IF ln = "Table 2" THEN [st EXCEPT !.table = 2, !.pending = <<>>, !.i = st.i + 1]
        ELSE IF st.table = 0 THEN [st EXCEPT !.i = st.i + 1]
        ELSE IF ln = "" \/ is_header_line(ln) THEN [st EXCEPT !.pending = <<>>, !.i = st.i + 1]
        ELSE IF ln \in {"Yes", "No", "7"} THEN [st EXCEPT !.i = st.i + 1]
        ELSE IF looks_like_ahfs(ln)
             THEN LET j == AhfsEnd(lines, st.i + 1)
                      yn == take_yesno(lines, j, 2, <<>>)
                      rec == [drug |-> st.pending, table |-> st.table,
                              line |-> st.i + 1,
                              ahfs |-> SubSeq(lines, st.i + 1, j),
                              flags |-> <<FlagAt(yn, 1), FlagAt(yn, 2)>>]
                  IN  [i |-> j, table |-> st.table, pending |-> <<>>,
                       records |-> IF st.pending # <<>> THEN Append(st.records, rec)
                                   ELSE st.records]
        ELSE IF IsRunningText(ln) THEN [st EXCEPT !.pending = <<>>, !.i = st.i + 1]
        ELSE IF IsShort(ln) THEN [st EXCEPT !.pending = Last3(Append(st.pending, ln)),
                                            !.i = st.i + 1]
        ELSE [st EXCEPT !.i = st.i + 1]

RECURSIVE NioshLoop(_, _)
NioshLoop(lines, st) ==
    IF st.i < Len(lines) THEN NioshLoop(lines, NioshIteration(lines, st)) ELSE st

\* _niosh_norm of one line of a name: lower case, punctuation to spaces, stripped
NioshNormLine(ln) ==
    CASE ln = "Abc" -> <<"abc">>
      [] ln = "+" -> <<>>
      [] ln = "Table 3" -> <<"table", "3">>
      [] OTHER -> <<ln>>

\* _niosh_norm(drug) of the joined lines of the name
RECURSIVE _niosh_norm(_)
_niosh_norm(drug) ==
    IF drug = <<>> THEN <<>> ELSE NioshNormLine(Head(drug)) \o _niosh_norm(Tail(drug))

NioshKey(r) == <<_niosh_norm(r.drug), r.table>>

RECURSIVE NioshDedup_keeps_all(_, _)
NioshDedup_keeps_all(records, seen) ==
    IF records = <<>> THEN <<>>
    ELSE IF NioshKey(Head(records))[1] = <<>>
         THEN NioshDedup_keeps_all(Tail(records), seen)
         ELSE <<Head(records)>> \o NioshDedup_keeps_all(Tail(records), seen)

\* lines 1037-1045: the first record of each (normalized name, table) is kept
RECURSIVE NioshDedup(_, _)
NioshDedup(records, seen) ==
    IF records = <<>> THEN <<>>
    ELSE IF NioshKey(Head(records)) \in seen \/ NioshKey(Head(records))[1] = <<>>
         THEN NioshDedup(Tail(records), seen)
         ELSE <<Head(records)>> \o NioshDedup(Tail(records), seen \cup {NioshKey(Head(records))})

NioshStart == [i |-> 0, table |-> 0, pending |-> <<>>, records |-> <<>>]

\* the records before the deduplication
NioshRecords(lines) == NioshLoop(lines, NioshStart).records

parse_niosh_hazardous_pdf_text(lines) == NioshDedup(NioshRecords(lines), {})

\* the lines of the texts that are parsed
NioshLines == {"Table 1", "Table 2", "abc", "Abc", "+", "10:00"}

InitNiosh ==
    /\ fnName = "none"
    /\ fnArgs \in UNION {[1..n -> NioshLines] : n \in 0..MaxLines}
    /\ fnResult = NoCall
    /\ NdcIdle
    /\ DlIdle
    /\ PbIdle
    /\ MainIdle
    /\ LoadIdle

ParseNiosh ==
    /\ fnName = "none"
    /\ fnName' = "parse_niosh_hazardous_pdf_text"
    /\ fnResult' = parse_niosh_hazardous_pdf_text(fnArgs)
    /\ UNCHANGED fnArgs
    /\ UNCHANGED notFn

NextNiosh ==
    \/ ParseNiosh

SpecNiosh == InitNiosh /\ [][NextNiosh]_vars

(***************************************************************************)
(* Claims about the NIOSH parser                                           *)
(***************************************************************************)
Parsed == fnName = "parse_niosh_hazardous_pdf_text"

\* the name as the claim folds it: case and spacing
FoldedName(r) == _niosh_norm(r.drug)

\* the records of the tables as they are met in the text, with a name
Entries == SelectSeq(NioshRecords(fnArgs), LAMBDA r : FoldedName(r) # <<>>)

\* C14: no two records of the output share (folded name, table); each record
\* of the output is the first entry of the text with its pair, every pair of
\* the text is in the output, in the order of first occurrence, and no record
\* has an empty name.
C14_DedupByNameAndTable ==
    Parsed =>
        /\ \A i, j \in 1..Len(fnResult) :
              i # j => <<FoldedName(fnResult[i]), fnResult[i].table>>
                          # <<FoldedName(fnResult[j]), fnResult[j].table>>
        /\ \A i \in 1..Len(fnResult) :
              /\ fnResult[i].drug # <<>>
              /\ FoldedName(fnResult[i]) # <<>>
              /\ \E k \in 1..Len(Entries) :
                    /\ Entries[k] = fnResult[i]
                    /\ \A h \in 1..(k - 1) :
                          <<FoldedName(Entries[h]), Entries[h].table>>
                              # <<FoldedName(Entries[k]), Entries[k].table>>
        /\ \A k \in 1..Len(Entries) :
              \E i \in 1..Len(fnResult) :
                  /\ FoldedName(fnResult[i]) = FoldedName(Entries[k])
                  /\ fnResult[i].table = Entries[k].table

\* the same name in Table 1 and in Table 2 gave two records
C14_Witness ==
    /\ Parsed
    /\ Len(fnResult) = 2
    /\ FoldedName(fnResult[1]) = FoldedName(fnResult[2])
    /\ fnResult[1].table = 1
    /\ fnResult[2].table = 2

(***************************************************************************)
(* The main loop of parse_niosh_hazardous_pdf_text, one iteration a step.  *)
(* fnArgs is the list of lines, fnResult the variables of the loop: the    *)
(* index i, the current table, the pending name, the records.              *)
(***************************************************************************)
StepLines == {"Table 1", "Table 2", "abc", "10:00", "Yes", ""}

InitNioshSteps ==
    /\ fnName = "niosh_loop"
    /\ fnArgs \in UNION {[1..n -> StepLines] : n \in 0..MaxStepLines}
    /\ fnResult = NioshStart
    /\ NdcIdle
    /\ DlIdle
    /\ PbIdle
    /\ MainIdle
    /\ LoadIdle

\* lines 961-1035: while i < len(lines), one iteration
NioshStep ==
    /\ fnName = "niosh_loop"
    /\ fnResult.i < Len(fnArgs)
    /\ fnResult' = NioshIteration(fnArgs, fnResult)
    /\ UNCHANGED <<fnName, fnArgs>>
    /\ UNCHANGED notFn

\* lines 1037-1047: the loop is over, the records are deduplicated
NioshFinish ==
    /\ fnName = "niosh_loop"
    /\ ~(fnResult.i < Len(fnArgs))
    /\ fnName' = "niosh_done"
    /\ fnResult' = [fnResult EXCEPT !.records = NioshDedup(fnResult.records, {})]
    /\ UNCHANGED fnArgs
    /\ UNCHANGED notFn

NextNioshSteps ==
    \/ NioshStep
    \/ NioshFinish

SpecNioshSteps == InitNioshSteps /\ [][NextNioshSteps]_vars

\* the interpreter runs the loop on
SpecNioshRun == InitNioshSteps /\ [][NextNioshSteps]_vars /\ WF_vars(NextNioshSteps)

(***************************************************************************)
(* Claims about the loop of the NIOSH parser                               *)
(***************************************************************************)
InNioshLoop == fnName \in {"niosh_loop", "niosh_done"}

\* the number of the last line of the classification block of a record
BlockEnd(r) == r.line + Len(r.ahfs) - 1

\* the Yes/No tokens behind line p, up to two, blank lines apart, up to the
\* next line that is a name, a classification or a table marker
RECURSIVE OwnTokens(_, _, _)
OwnTokens(lines, p, acc) ==
    IF p > Len(lines) \/ Len(acc) = 2 THEN acc
    ELSE IF lines[p] \in {"Yes", "No"} THEN OwnTokens(lines, p + 1, Append(acc, lines[p]))
    ELSE IF lines[p] = "" THEN OwnTokens(lines, p + 1, acc)
    ELSE acc

\* the tokens by position, "None" where there is none
OwnFlags(lines, r) ==
    LET toks == OwnTokens(lines, BlockEnd(r) + 1, <<>>)
    IN  <<IF Len(toks) >= 1 THEN toks[1] ELSE "None",
          IF Len(toks) >= 2 THEN toks[2] ELSE "None">>

\* C26: the flags of a record are the at most two Yes/No tokens that follow
\* its classification block, by position; a token behind a later drug name,
\* classification line or table marker is not assigned to it, and a flag
\* without a token is null.
C26_FlagsFromOwnTokens ==
    InNioshLoop =>
        \A k \in 1..Len(fnResult.records) :
            fnResult.records[k].flags = OwnFlags(fnArgs, fnResult.records[k])

\* the number of the last table marker before line p, 0 when there is none
RECURSIVE LastMarker(_, _)
LastMarker(lines, p) ==
    IF p <= 1 THEN 0
    ELSE IF lines[p - 1] \in {"Table 1", "Table 2"} THEN p - 1
    ELSE LastMarker(lines, p - 1)

\* xs is what is left of ys when some entries are taken out
RECURSIVE IsSubsequence(_, _)
IsSubsequence(xs, ys) ==
    IF xs = <<>> THEN TRUE
    ELSE IF ys = <<>> THEN FALSE
    ELSE IF Head(xs) = Head(ys) THEN IsSubsequence(Tail(xs), Tail(ys))
    ELSE IsSubsequence(xs, Tail(ys))

\* C27: before the first Table 1 or Table 2 marker the parser is outside any
\* table and emits no record; every record has the table of the last marker
\* before its classification line, and its name is made of lines between that
\* marker and the classification line only.
C27_TableOfLastMarker ==
    InNioshLoop =>
        /\ (LastMarker(fnArgs, fnResult.i + 1) = 0) =>
              (fnResult.table = 0 /\ fnResult.pending = <<>> /\ fnResult.records = <<>>)
        /\ \A k \in 1..Len(fnResult.records) :
              LET r == fnResult.records[k]
                  mk == LastMarker(fnArgs, r.line)
              IN  /\ mk > 0
                  /\ r.table = (IF fnArgs[mk] = "Table 1" THEN 1 ELSE 2)
                  /\ IsSubsequence(r.drug, SubSeq(fnArgs, mk + 1, r.line - 1))

\* a name under Table 1 without a classification, then the Table 2 marker,
\* the name again and its classification: one record, of Table 2
C27_Witness ==
    /\ fnName = "niosh_done"
    /\ fnArgs = <<"Table 1", "abc", "Table 2", "abc", "10:00">>
    /\ Len(fnResult.records) = 1
    /\ fnResult.records[1].table = 2
    /\ fnResult.records[1].drug = <<"abc">>

\* C29: the loop ends on every input: every iteration moves the index i
\* forward and not beyond the number of lines, also when it consumes a
\* classification block, whose scan ends between the line behind the
\* classification line and the end of the input.
C29_IndexAdvancesToTheEnd ==
    /\ [][(fnName = "niosh_loop" /\ fnName' = "niosh_loop") =>
            /\ fnResult'.i > fnResult.i
            /\ fnResult'.i <= Len(fnArgs)
            /\ AhfsEnd(fnArgs, fnResult.i + 1) \in (fnResult.i + 1)..Len(fnArgs)]_vars
    /\ (fnName = "niosh_loop" ~> fnName = "niosh_done")

\* a classification of two lines was consumed in one iteration, up to the
\* end of the input
C29_Witness ==
    /\ fnName = "niosh_done"
    /\ fnArgs = <<"Table 1", "abc", "10:00", "10:00">>
    /\ fnResult.i = 4
    /\ Len(fnResult.records) = 1
    /\ Len(fnResult.records[1].ahfs) = 2

(***************************************************************************)
(* find_hits (lines 1273-1298).  text_fields is a dict: the sequence of    *)
(* its (field, text) items in insertion order.  A text is a sequence of    *)
(* the characters "a", "A" and "b", a keyword one of "a", "b" and "w"      *)
(* (whitespace).                                                           *)
(***************************************************************************)
\* re.IGNORECASE
Lower(c) == IF c = "A" THEN "a" ELSE c

\* the pattern re.escape(kw) matches the text at position p (from 0)
MatchesAt(text, kw, p) ==
    /\ p + Len(kw) <= Len(text)
    /\ \A i \in 1..Len(kw) : Lower(text[p + i]) = Lower(kw[i])

\* [m.start() for m in pat.finditer(text)]: leftmost matches that do not overlap
RECURSIVE finditer(_, _, _)
finditer(text, kw, p) ==
    IF p + Len(kw) > Len(text) THEN <<>>
    ELSE IF MatchesAt(text, kw, p) THEN <<p>> \o finditer(text, kw, p + Len(kw))
    ELSE finditer(text, kw, p + 1)

\* the hit of lines 1287-1294
Hit(kw, item, start) ==
    LET from == IF start - SnippetContext > 0 THEN start - SnippetContext ELSE 0
        upto == IF start + Len(kw) + SnippetContext < Len(item.text)
                THEN start + Len(kw) + SnippetContext ELSE Len(item.text)
    IN  [keyword |-> kw, field |-> item.field, snippet |-> Strip(Slice(item.text, from, upto)),
         index |-> start]

\* the hits of one keyword in one field, in the order of finditer
HitsInField(kw, item) ==
    LET starts == finditer(item.text, kw, 0)
    IN  [n \in 1..Len(starts) |-> Hit(kw, item, starts[n])]

\* the hits of one keyword in the fields, in the order of text_fields.items()
RECURSIVE HitsOfKeyword(_, _)
HitsOfKeyword(kw, items) ==
    IF items = <<>> THEN <<>>
    ELSE HitsInField(kw, Head(items)) \o HitsOfKeyword(kw, Tail(items))

\* what the three loops of lines 1283-1286 go through
RECURSIVE HitsInLoopOrder(_, _)
HitsInLoopOrder(kws, items) ==
    IF kws = <<>> THEN <<>>
    ELSE HitsOfKeyword(Head(kws), items) \o HitsInLoopOrder(Tail(kws), items)

\* lines 1287-1297: each hit is appended, and the function returns as soon as
\* len(hits) >= max_total holds after an append
RECURSIVE AppendUntilMax(_, _, _)
AppendUntilMax(found, hits, max_total) ==
    IF found = <<>> THEN hits
    ELSE IF Len(hits) + 1 >= max_total THEN Append(hits, Head(found))
    ELSE AppendUntilMax(Tail(found), Append(hits, Head(found)), max_total)

\* [k for k in (kw.strip() for kw in keywords) if k]
StrippedKeywords(keywords) ==
    LET stripped == [i \in 1..Len(keywords) |-> Strip(keywords[i])]
    IN  SelectSeq(stripped, LAMBDA k : k # <<>>)

find_hits(text_fields, keywords, max_total) ==
    LET kws == StrippedKeywords(keywords)
    IN  IF keywords = <<>> \/ kws = <<>> THEN <<>>
        ELSE AppendUntilMax(HitsInLoopOrder(kws, text_fields), <<>>, max_total)

Texts == UNION {[1..n -> {"a", "A", "b"}] : n \in 0..MaxText}

TextFields ==
    {<<>>}
        \cup {<<[field |-> "f1", text |-> x]>> : x \in Texts}
        \cup {<<[field |-> "f1", text |-> x], [field |-> "f2", text |-> y]>> :
                 x \in Texts, y \in Texts}

KeywordLists ==
    {<<>>, <<<<"w">>>>, <<<<"a">>>>, <<<<"a", "b">>>>, <<<<"w", "b">>, <<"a">>>>,
     <<<<"a">>, <<"b">>>>, <<<<"b">>, <<"w">>, <<"A">>>>}

InitFind ==
    /\ fnName = "none"
    /\ fnArgs \in [text_fields : TextFields, keywords : KeywordLists, max_total : 0..MaxTotal]
    /\ fnResult = NoCall
    /\ NdcIdle
    /\ DlIdle
    /\ PbIdle
    /\ MainIdle
    /\ LoadIdle

FindHits ==
    /\ fnName = "none"
    /\ fnName' = "find_hits"
    /\ fnResult' = find_hits(fnArgs.text_fields, fnArgs.keywords, fnArgs.max_total)
    /\ UNCHANGED fnArgs
    /\ UNCHANGED notFn

NextFind ==
    \/ FindHits

SpecFind == InitFind /\ [][NextFind]_vars

(***************************************************************************)
(* Claims about find_hits                                                  *)
(***************************************************************************)
\* the place of the keyword in the list, of the field in the dict
PlaceOfKeyword(kw) ==
    CHOOSE n \in 1..Len(fnArgs.keywords) : Strip(fnArgs.keywords[n]) = kw

PlaceOfField(f) ==
    CHOOSE n \in 1..Len(fnArgs.text_fields) : fnArgs.text_fields[n].field = f

\* C15: find_hits returns no more hits than max_total, all hits of an earlier
\* keyword precede all hits of a later keyword, and within one keyword the
\* hits of an earlier field precede those of a later field.
C15_AtMostMaxInKeywordMajorOrder ==
    fnName = "find_hits" =>
        /\ Len(fnResult) <= fnArgs.max_total
        /\ \A i, j \in 1..Len(fnResult) :
              i < j =>
                  /\ PlaceOfKeyword(fnResult[i].keyword) <= PlaceOfKeyword(fnResult[j].keyword)
                  /\ fnResult[i].keyword = fnResult[j].keyword =>
                        PlaceOfField(fnResult[i].field) <= PlaceOfField(fnResult[j].field)

(***************************************************************************)
(* openfda_qstr and openfda_escape_value (lines 261-273).  A character is  *)
(*   "dq"   the double quote                                               *)
(*   "bs"   the backslash                                                  *)
(*   "sp"   the space                                                      *)
(*   "tab"  an ASCII control character that is whitespace (tab, newline)   *)
(*   "nul"  an ASCII control character that is not whitespace              *)
(*   "c1"   a control character above U+007F that is not whitespace        *)
(*   "x"    any other character                                            *)
(***************************************************************************)
\* what str.strip() removes
PyWhitespace == {"sp", "tab"}

\* _OPENFDA_CTRL_RE, the class [\x00-\x1f\x7f]
OpenfdaCtrl == {"tab", "nul"}

RECURSIVE PyLStrip(_)
PyLStrip(s) == IF s # <<>> /\ Head(s) \in PyWhitespace THEN PyLStrip(Tail(s)) ELSE s

RECURSIVE PyRStrip(_)
PyRStrip(s) ==
    IF s # <<>> /\ s[Len(s)] \in PyWhitespace THEN PyRStrip(SubSeq(s, 1, Len(s) - 1)) ELSE s

\* s.replace(old, new) for a one-character old
RECURSIVE Replace(_, _, _)
Replace(s, old, new) ==
    IF s = <<>> THEN <<>>
    ELSE (IF Head(s) = old THEN new ELSE <<Head(s)>>) \o Replace(Tail(s), old, new)

\* _OPENFDA_CTRL_RE.sub(" ", v)
SubCtrl(s) == [i \in 1..Len(s) |-> IF s[i] \in OpenfdaCtrl THEN "sp" ELSE s[i]]

openfda_escape_value_quotes_first(value) ==
    LET v0 == PyRStrip(PyLStrip(IF value = None THEN <<>> ELSE value))
        v1 == SubCtrl(v0)
    IN  Replace(Replace(v1, "dq", <<"bs", "dq">>), "bs", <<"bs", "bs">>)

\* lines 264-269: backslashes are escaped first, then the quotes
openfda_escape_value(value) ==
    LET v0 == PyRStrip(PyLStrip(IF value = None THEN <<>> ELSE value))
        v1 == SubCtrl(v0)
    IN  Replace(Replace(v1, "bs", <<"bs", "bs">>), "dq", <<"bs", "dq">>)

openfda_qstr(value) == <<"dq">> \o openfda_escape_value(value) \o <<"dq">>

QChars == {"dq", "bs", "sp", "tab", "nul", "c1", "x"}

QValues == {None} \cup UNION {[1..n -> QChars] : n \in 0..MaxValue}

InitQstr ==
    /\ fnName = "none"
    /\ fnArgs \in QValues
    /\ fnResult = NoCall
    /\ NdcIdle
    /\ DlIdle
    /\ PbIdle
    /\ MainIdle
    /\ LoadIdle

Qstr ==
    /\ fnName = "none"
    /\ fnName' = "openfda_qstr"
    /\ fnResult' = openfda_qstr(fnArgs)
    /\ UNCHANGED fnArgs
    /\ UNCHANGED notFn

NextQstr ==
    \/ Qstr

SpecQstr == InitQstr /\ [][NextQstr]_vars

(***************************************************************************)
(* Claims about openfda_qstr                                               *)
(***************************************************************************)
\* read from the left, every backslash is followed by a backslash or a double
\* quote, which it escapes, and no double quote stands unescaped
RECURSIVE WellEscaped(_)
WellEscaped(s) ==
    IF s = <<>> THEN TRUE
    ELSE IF Head(s) = "bs"
         THEN Len(s) >= 2 /\ s[2] \in {"bs", "dq"} /\ WellEscaped(Tail(Tail(s)))
    ELSE IF Head(s) = "dq" THEN FALSE
    ELSE WellEscaped(Tail(s))

\* the ASCII control characters, U+0000 to U+001F and U+007F
AsciiControl == {"tab", "nul"}

HexDigits == AsciiDigits \cup {"a", "F"}

\* every character of g is one of chars, and g has lo..hi characters
IsRun(g, chars, lo, hi) ==
    /\ Len(g) \in lo..hi
    /\ \A i \in 1..Len(g) : g[i] \in chars

\* the variant that insists on the third group of digits
is_probable_ndc_three_groups(s) ==
    LET t == Strip(s)
        ps == SplitHyphen(t, <<>>)
        d == AsciiDigits \cup UniDigits
    IN  \/ IsRun(t, d, 10, 11)
        \/ /\ Len(ps) = 3
           /\ IsRun(ps[1], d, 4, 5)
           /\ IsRun(ps[2], d, 3, 4)
           /\ IsRun(ps[3], d, 1, 2)

\* \d{10,11}, or \d{4,5}-\d{3,4}(-\d{1,2})? on the stripped string; \d of a
\* str pattern is Unicode-aware
is_probable_ndc(s) ==
    LET t == Strip(s)
        ps == SplitHyphen(t, <<>>)
        d == AsciiDigits \cup UniDigits
    IN  \/ IsRun(t, d, 10, 11)
        \/ /\ Len(ps) \in {2, 3}
           /\ IsRun(ps[1], d, 4, 5)
           /\ IsRun(ps[2], d, 3, 4)
           /\ Len(ps) = 3 => IsRun(ps[3], d, 1, 2)

\* five groups of 8, 4, 4, 4 and 12 hexadecimal digits, stripped first
is_uuid_like(s) ==
    LET ps == SplitHyphen(Strip(s), <<>>)
    IN  /\ Len(ps) = 5
        /\ IsRun(ps[1], HexDigits, 8, 8)
        /\ IsRun(ps[2], HexDigits, 4, 4)
        /\ IsRun(ps[3], HexDigits, 4, 4)
        /\ IsRun(ps[4], HexDigits, 4, 4)
        /\ IsRun(ps[5], HexDigits, 12, 12)

\* a value Python takes as true in "a or b"
Truthy(v) == v # None /\ v # <<>>

\* out["input"]["type"] for the stripped query q and the --set-id argument
input_type(q, set_id) ==
    LET forced_set_id == IF Truthy(set_id) THEN set_id
                         ELSE IF is_uuid_like(q) THEN q ELSE None
    IN  IF Truthy(forced_set_id) THEN "set_id"
        ELSE IF is_probable_ndc(q) THEN "ndc"
        ELSE "name"

\* groups of the given lengths, every character c, joined by hyphens
RECURSIVE FillGroups(_, _)
FillGroups(lens, c) ==
    IF lens = <<>> THEN <<>>
    ELSE [i \in 1..Head(lens) |-> c]
             \o (IF Len(lens) > 1 THEN <<"-">> ELSE <<>>)
             \o FillGroups(Tail(lens), c)

UuidGroupLens == {4, 8, 12}
UuidShapes == UNION {[1..k -> UuidGroupLens] : k \in 4..6}
UuidFills == {"1", "a", "F", "g", "u"}
UuidInputs == {FillGroups(sh, c) : sh \in UuidShapes, c \in UuidFills}

\* a well-grouped identifier with one character that is no hexadecimal digit
SpoiledUuids ==
    {[FillGroups(<<8, 4, 4, 4, 12>>, "a") EXCEPT ![i] = "g"] : i \in {1, 9, 10, 36}}

\* args.query.strip()
ClassifyQueries ==
    {Strip(s) : s \in NdcInputs \cup UuidInputs \cup SpoiledUuids
                        \cup {<<"w">> \o u \o <<"w">> : u \in UuidInputs}}

\* args.set_id
SetIdArgs == {None, <<>>, <<"x">>}

InitClassify ==
    /\ fnName = "classify"
    /\ \E q \in ClassifyQueries, sid \in SetIdArgs : fnArgs = <<q, sid>>
    /\ fnResult = NoCall
    /\ NdcIdle /\ DlIdle /\ PbIdle /\ MainIdle /\ LoadIdle

ClassifyQuery ==
    /\ fnName = "classify"
    /\ fnResult = NoCall
    /\ fnResult' = <<input_type(fnArgs[1], fnArgs[2])>>
    /\ UNCHANGED <<fnName, fnArgs>>
    /\ UNCHANGED notFn

NextClassify == ClassifyQuery

SpecClassify == InitClassify /\ [][NextClassify]_vars

\* the pieces between the hyphens of the query
Segments(q) == SplitHyphen(q, <<>>)

\* decimal digits only, and at least one
AllDigits(g) == g # <<>> /\ \A i \in 1..Len(g) : g[i] \in AsciiDigits \cup UniDigits

\* hexadecimal digits only
AllHex(g) == \A i \in 1..Len(g) : g[i] \in HexDigits

HasUuidGrouping(q) ==
    /\ Len(Segments(q)) = 5
    /\ \A i \in 1..5 : AllHex(Segments(q)[i])
    /\ [i \in 1..5 |-> Len(Segments(q)[i])] = <<8, 4, 4, 4, 12>>

BareDigitRun(q) == AllDigits(q) /\ Len(q) \in {10, 11}

ThreeDigitSegments(q) ==
    /\ Len(Segments(q)) = 3
    /\ \A i \in 1..3 : AllDigits(Segments(q)[i])
    /\ Len(Segments(q)[1]) \in 4..5
    /\ Len(Segments(q)[2]) \in 3..4
    /\ Len(Segments(q)[3]) \in 1..2

TwoDigitSegments(q) ==
    /\ Len(Segments(q)) = 2
    /\ \A i \in 1..2 : AllDigits(Segments(q)[i])
    /\ Len(Segments(q)[1]) \in 4..5
    /\ Len(Segments(q)[2]) \in 3..4

Classified == fnName = "classify" /\ fnResult # NoCall

\* C17 as stated: the query is a set_id when it has the 8-4-4-4-12
\* hexadecimal grouping, otherwise an ndc when it is a bare run of 10 or 11
\* digits or three hyphen-joined digit runs of 4-5, 3-4 and 1-2 digits,
\* otherwise a name.
C17_AsStated ==
    Classified /\ ~Truthy(fnArgs[2]) =>
        fnResult[1] = IF HasUuidGrouping(fnArgs[1]) THEN "set_id"
                      ELSE IF BareDigitRun(fnArgs[1]) \/ ThreeDigitSegments(fnArgs[1])
                           THEN "ndc"
                      ELSE "name"

\* C17 amended: when no --set-id is given the query has exactly one type:
\* set_id when it has the 8-4-4-4-12 hexadecimal grouping, otherwise ndc
\* when it is a bare run of 10 or 11 digits or hyphen-joined digit runs of
\* 4-5 and 3-4 digits with an optional third run of 1-2 digits, otherwise
\* name.
C17_Classification ==
    Classified /\ ~Truthy(fnArgs[2]) =>
        fnResult[1] = IF HasUuidGrouping(fnArgs[1]) THEN "set_id"
                      ELSE IF \/ BareDigitRun(fnArgs[1])
                              \/ ThreeDigitSegments(fnArgs[1])
                              \/ TwoDigitSegments(fnArgs[1])
                           THEN "ndc"
                      ELSE "name"

C17_Witness ==
    /\ Classified
    /\ fnArgs = <<<<"1", "2", "3", "4", "-", "5", "6", "7", "8">>, None>>
    /\ fnResult = <<"ndc">>

====
